---------------------------- MODULE Spec2Model ----------------------------
(***************************************************************************)
(* Model of django_auxilium.utils.functools: the caching layer of cache.py *)
(* (Caching, Memoizing, CacheDescriptor, MemoizeDescriptor, CacheDecorator,*)
(* MemoizeDecorator) and the Cache / Memoize decorators of decorators.py.  *)
(*                                                                         *)
(* Python values are modelled as follows.  Cached values are integers; the *)
(* wrapped callable is the counter-incrementing callable of the tests      *)
(* (counter += 1; return counter).  An object's __dict__ is a function     *)
(* whose DOMAIN is the set of attribute names present on the object.  A    *)
(* Python dict is a function whose DOMAIN is its set of keys.  Call        *)
(* arguments are sequences of values [type, text]; keyword arguments are   *)
(* sequences of <<name, value>> pairs in call order with unique names.     *)
(***************************************************************************)
EXTENDS Integers, Sequences, FiniteSets, TLC

VARIABLES
    dec,        \* the decorator instance: its configuration and what it wrapped
    attrs,      \* attrs[o]: the __dict__ of object o (decorator, instances)
    counter,    \* counter[w]: the counter the wrapped callable increments
    calls,      \* calls[w]: how often the wrapped callable was called
    init_counter, \* the counter's value before the first call
    hist,       \* log of the operations performed, each with its outcome
    keyIn,      \* the two argument lists handed to Memoizing._get_key
    keyOut,     \* the two keys computed from keyIn (<<>> before)
    fetched,    \* the object the last read of the decorated attribute returned
    klass,      \* a Decorator subclass: its PARAMETERS and DEFAULTS
    request,    \* the last operation on klass or its instance, with outcome
    built,      \* the instance of klass: constructed, its parameters, wrapped
    callers     \* callers[t]: the cached call caller t is in the middle of

vars == <<dec, attrs, counter, calls, init_counter, hist, keyIn, keyOut, fetched,
          klass, request, built, callers>>
cacheVars == <<dec, attrs, counter, calls, init_counter, hist, keyIn, keyOut,
               fetched, callers>>
paramVars == <<klass, request, built>>

---------------------------------------------------------------------------
(* Bounds *)

MaxHistFunc == 6        \* operations per behaviour on a decorated function
MaxHistMethod == 4      \* operations per behaviour on a decorated method
MaxArgs == 2            \* positional arguments handed to _get_key

InitCounters == {5, 7}  \* counter values before the first call
PushedValues == {100}   \* values pushed / assigned from outside
Instances == {"a", "b"} \* instances of the class holding the method
Objects == {"decorator"} \cup Instances
Owners == {"module"} \cup Instances   \* where a wrapped callable's counter lives

None == -1000           \* Python's None among the integer values

str(text) == [type |-> "str", text |-> text]
int(text) == [type |-> "int", text |-> text]
ArgValues == {str("hello"), str("world")}
EmptyKwargs == << >>

---------------------------------------------------------------------------
(* Python helpers *)

\* d with d[k] = v added or overwritten
Put(d, k, v) == [x \in (DOMAIN d) \cup {k} |-> IF x = k THEN v ELSE d[x]]
\* d without key k
Del(d, k) == [x \in (DOMAIN d) \ {k} |-> d[x]]
EmptyDict == [x \in {} |-> None]

\* repr() of a str or an int
repr(v) == IF v.type = "str" THEN "'" \o v.text \o "'" ELSE v.text

RECURSIVE join(_, _)
join(strs, sep) ==
    IF Len(strs) = 0 THEN ""
    ELSE IF Len(strs) = 1 THEN strs[1]
    ELSE strs[1] \o sep \o join(Tail(strs), sep)

\* repr() of a tuple: (), (x,), (x, y)
repr_tuple(t) ==
    IF Len(t) = 1 THEN "(" \o repr(t[1]) \o ",)"
    ELSE "(" \o join([i \in 1..Len(t) |-> repr(t[i])], ", ") \o ")"

\* repr() of a list of (name, value) tuples
repr_items(items) ==
    "[" \o join([i \in 1..Len(items) |->
                    "('" \o items[i][1] \o "', " \o repr(items[i][2]) \o ")"],
                ", ") \o "]"

\* keyword names, in their string order
KwNames == <<"a", "b">>
NameRank(n) == CHOOSE i \in 1..Len(KwNames) : KwNames[i] = n

RECURSIVE insert(_, _)
insert(item, sortedItems) ==
    IF Len(sortedItems) = 0 THEN <<item>>
    ELSE IF NameRank(item[1]) <= NameRank(sortedItems[1][1])
         THEN <<item>> \o sortedItems
         ELSE <<sortedItems[1]>> \o insert(item, Tail(sortedItems))

\* sorted(kwargs.items()): names are unique, so the order is by name
RECURSIVE sorted(_)
sorted(items) ==
    IF Len(items) = 0 THEN << >>
    ELSE insert(items[1], sorted(Tail(items)))

\* Decorator.PARAMETERS = () and Decorator.DEFAULTS = {}
NoDeclaration == [PARAMETERS |-> << >>, DEFAULTS |-> EmptyDict]
\* no operation on the parameter declaration yet
NoRequest ==
    [op |-> "none", args |-> << >>, kwargs |-> EmptyDict, exc |-> "none",
     parameters |-> EmptyDict]
\* no instance constructed
NotBuilt == [constructed |-> FALSE, parameters |-> EmptyDict, wrapped |-> FALSE]

\* the callers of a decorated callable, and a caller between two calls
CallerIds == {1, 2}
Idle == [pc |-> "idle", obj |-> "", args |-> << >>, value |-> None]
Caller(pc, obj, args, value) ==
    [pc |-> pc, obj |-> obj, args |-> args, value |-> value]
NoCallers == [t \in CallerIds |-> Idle]

---------------------------------------------------------------------------
(* cache.py: the storage strategies *)

NotInCache == "NotInCache"

Ok(value, newAttrs) == [exc |-> "none", value |-> value, attrs |-> newAttrs]
Raise(exc, oldAttrs) == [exc |-> exc, value |-> None, attrs |-> oldAttrs]

\* BaseCache.__init__
BaseCache(cls, parent, attr) == [cls |-> cls, parent |-> parent, attr |-> attr]

Caching_get(d, cache, args, kwargs) ==
    IF cache.attr \in DOMAIN d[cache.parent]
    THEN Ok(d[cache.parent][cache.attr], d)
    ELSE Raise(NotInCache, d)

Caching_set(d, cache, value, args, kwargs) ==
    Ok(value, [d EXCEPT ![cache.parent] = Put(@, cache.attr, value)])

Caching_delete_keep(d, cache, args, kwargs) ==
    IF cache.attr \in DOMAIN d[cache.parent]
    THEN Ok(d[cache.parent][cache.attr], d)
    ELSE Raise(NotInCache, d)

Caching_delete(d, cache, args, kwargs) ==
    IF cache.attr \in DOMAIN d[cache.parent]
    THEN Ok(d[cache.parent][cache.attr],
            [d EXCEPT ![cache.parent] = Del(@, cache.attr)])
    ELSE Raise(NotInCache, d)

get_key_unsorted(args, kwargs) == repr_tuple(args) \o repr_items(kwargs)

_get_key(args, kwargs) == repr_tuple(args) \o repr_items(sorted(kwargs))

Memoizing_get(d, cache, args, kwargs) ==
    LET key == _get_key(args, kwargs) IN
    IF /\ cache.attr \in DOMAIN d[cache.parent]
       /\ key \in DOMAIN d[cache.parent][cache.attr]
    THEN Ok(d[cache.parent][cache.attr][key], d)
    ELSE Raise(NotInCache, d)

Memoizing_set(d, cache, value, args, kwargs) ==
    LET key == _get_key(args, kwargs)
        store == IF cache.attr \in DOMAIN d[cache.parent]
                 THEN d[cache.parent][cache.attr]
                 ELSE EmptyDict
    IN Ok(value, [d EXCEPT ![cache.parent] =
                        Put(@, cache.attr, Put(store, key, value))])

Memoizing_delete_all(d, cache, args, kwargs) ==
    LET key == _get_key(args, kwargs) IN
    IF /\ cache.attr \in DOMAIN d[cache.parent]
       /\ key \in DOMAIN d[cache.parent][cache.attr]
    THEN Ok(d[cache.parent][cache.attr][key],
            [d EXCEPT ![cache.parent] = Put(@, cache.attr, EmptyDict)])
    ELSE Raise(NotInCache, d)

Memoizing_delete(d, cache, args, kwargs) ==
    LET key == _get_key(args, kwargs) IN
    IF /\ cache.attr \in DOMAIN d[cache.parent]
       /\ key \in DOMAIN d[cache.parent][cache.attr]
    THEN Ok(d[cache.parent][cache.attr][key],
            [d EXCEPT ![cache.parent] =
                Put(@, cache.attr, Del(d[cache.parent][cache.attr], key))])
    ELSE Raise(NotInCache, d)

\* dispatch on the cache implementation class
cache_get(d, cache, args, kwargs) ==
    IF cache.cls = "Caching" THEN Caching_get(d, cache, args, kwargs)
    ELSE Memoizing_get(d, cache, args, kwargs)

cache_set_if_absent(d, cache, value, args, kwargs) ==
    IF cache_get(d, cache, args, kwargs).exc = "none"
    THEN Ok(cache_get(d, cache, args, kwargs).value, d)
    ELSE IF cache.cls = "Caching" THEN Caching_set(d, cache, value, args, kwargs)
    ELSE Memoizing_set(d, cache, value, args, kwargs)

cache_set(d, cache, value, args, kwargs) ==
    IF cache.cls = "Caching" THEN Caching_set(d, cache, value, args, kwargs)
    ELSE Memoizing_set(d, cache, value, args, kwargs)

cache_delete(d, cache, args, kwargs) ==
    IF cache.cls = "Caching" THEN Caching_delete(d, cache, args, kwargs)
    ELSE Memoizing_delete(d, cache, args, kwargs)

---------------------------------------------------------------------------
(* The wrapped callable *)

\* what can be decorated: a module-level function or a method written in a
\* class body, taking nparams parameters besides self; raises tells when
\* its body raises: never, on its first call for an owner, or whenever its
\* argument is 'world'
Target(name, in_class_body, nparams, raises) ==
    [name |-> name, in_class_body |-> in_class_body, nparams |-> nparams,
     raises |-> raises]
Targets ==
    { Target("foo", FALSE, 0, "never"),
      Target("bar", FALSE, 1, "never"),
      Target("foo", TRUE, 0, "never"),
      Target("bar", TRUE, 1, "never") }
NoTarget == Target("", FALSE, 0, "never")
\* callables whose body can raise
RaisingTargets ==
    { Target("foo", FALSE, 0, "first"),
      Target("bar", FALSE, 1, "world"),
      Target("foo", TRUE, 0, "first"),
      Target("bar", TRUE, 1, "world") }

\* the argument lists that match a callable of n parameters
ArgLists(n) == {s \in UNION {[1..k -> ArgValues] : k \in 0..1} : Len(s) = n}

Res(exc, value, a, c, n) ==
    [exc |-> exc, value |-> value, attrs |-> a, counter |-> c, calls |-> n]

\* whether this call of the wrapped callable for owner w raises
body_raises(w, args) ==
    \/ dec.to_wrap.raises = "first" /\ calls[w] = 0
    \/ dec.to_wrap.raises = "world" /\ args = <<str("world")>>

\* Calling the wrapped callable for owner w: Python raises TypeError when
\* the arguments do not match its parameters, else the body runs; it
\* raises ValueError, or does: counter += 1; return counter
invoke(w, args) ==
    IF Len(args) # dec.to_wrap.nparams
    THEN Res("TypeError", None, attrs, counter,
             [calls EXCEPT ![w] = @ + 1])
    ELSE IF body_raises(w, args)
    THEN Res("ValueError", None, attrs, counter,
             [calls EXCEPT ![w] = @ + 1])
    ELSE Res("none", counter[w] + 1, attrs,
             [counter EXCEPT ![w] = @ + 1], [calls EXCEPT ![w] = @ + 1])

---------------------------------------------------------------------------
(* cache.py: CacheDescriptor and MemoizeDescriptor *)

\* abs(hash(name)): a token fixed by the name
hash(name) == "#" \o name

\* cache_attribute_pattern of the two descriptor classes
cache_attribute_pattern(descriptor_class, name) ==
    IF descriptor_class = "CacheDescriptor"
    THEN name \o "_cache_" \o hash(name)
    ELSE name \o "_memoize_" \o hash(name)

\* default_cache_class of the two descriptor classes
default_cache_class(descriptor_class) ==
    IF descriptor_class = "CacheDescriptor" THEN "Caching" ELSE "Memoizing"

\* CacheDescriptor.__init__ (no check of the method's parameters)
CacheDescriptor(descriptor_class, method, as_property) ==
    [method |-> method,
     cache_attribute |-> cache_attribute_pattern(descriptor_class, method.name),
     cache_class |-> default_cache_class(descriptor_class),
     as_property |-> as_property]
NoDescriptor == CacheDescriptor("CacheDescriptor", NoTarget, FALSE)

get_cache_shared(descriptor, instance) ==
    BaseCache(descriptor.cache_class, "decorator", descriptor.cache_attribute)

get_cache(descriptor, instance) ==
    BaseCache(descriptor.cache_class, instance, descriptor.cache_attribute)

getter_always_compute(descriptor, instance, args, kwargs) ==
    LET cache == get_cache(descriptor, instance)
        r == invoke(instance, args)
    IN IF r.exc # "none" THEN r
       ELSE LET st == cache_set(attrs, cache, r.value, args, kwargs)
            IN Res(st.exc, st.value, st.attrs, r.counter, r.calls)

getter_miss_escapes(descriptor, instance, args, kwargs) ==
    LET cache == get_cache(descriptor, instance)
        got == cache_get(attrs, cache, args, kwargs)
    IN IF got.exc = "none"
       THEN Res("none", got.value, attrs, counter, calls)
       ELSE LET r == invoke(instance, args)
            IN IF r.exc # "none"
               THEN Res(got.exc, None, attrs, r.counter, r.calls)
               ELSE LET st == cache_set(attrs, cache, r.value, args, kwargs)
                    IN Res(st.exc, st.value, st.attrs, r.counter, r.calls)

\* CacheDescriptor.getter
getter(descriptor, instance, args, kwargs) ==
    LET cache == get_cache(descriptor, instance)
        got == cache_get(attrs, cache, args, kwargs)
    IN IF got.exc = "none"
       THEN Res("none", got.value, attrs, counter, calls)
       ELSE LET r == invoke(instance, args)
            IN IF r.exc # "none" THEN r
               ELSE LET st == cache_set(attrs, cache, r.value, args, kwargs)
                    IN Res(st.exc, st.value, st.attrs, r.counter, r.calls)

pop(descriptor, instance, args, kwargs) ==
    LET cache == get_cache(descriptor, instance)
        r == cache_delete(attrs, cache, args, kwargs)
    IN Res(r.exc, r.value, r.attrs, counter, calls)

push_nothing(descriptor, instance, value, args, kwargs) ==
    Res("none", None, attrs, counter, calls)

push(descriptor, instance, value, args, kwargs) ==
    LET cache == get_cache(descriptor, instance)
        r == cache_set(attrs, cache, value, args, kwargs)
    IN Res(r.exc, None, r.attrs, counter, calls)

\* What reading the attribute returns when it is not a cached value: the
\* descriptor itself, the plain function, or the partial f built by _wrap
\* (f.func.__self__, f.pop.func.__self__, f.push.func.__self__ are the
\* instances the three proxies are bound to, f.__wrapped__ the method).
Attribute(kind, method, self, pop_self, push_self) ==
    [kind |-> kind, method |-> method, self |-> self,
     pop |-> pop_self, push |-> push_self]
NoInstance == "None"
Nothing == Attribute("nothing", NoTarget, NoInstance, NoInstance, NoInstance)

get_descriptor_off_class(descriptor, instance) ==
    IF instance = NoInstance
    THEN Attribute("descriptor", descriptor.method,
                   NoInstance, NoInstance, NoInstance)
    ELSE Attribute("partial", descriptor.method, instance, instance, instance)

\* CacheDescriptor.__get__ where it returns an object (the property-mode
\* read on an instance returns a value: descriptor_get)
__get__(descriptor, instance) ==
    IF descriptor.as_property
    THEN Attribute("descriptor", descriptor.method,
                   NoInstance, NoInstance, NoInstance)
    ELSE IF instance = NoInstance
         THEN Attribute("function", descriptor.method,
                        NoInstance, NoInstance, NoInstance)
         ELSE Attribute("partial", descriptor.method,
                        instance, instance, instance)

\* CacheDescriptor.__get__ on an instance in property mode
descriptor_get(descriptor, instance) ==
    getter(descriptor, instance, << >>, EmptyKwargs)

descriptor_set_compute(descriptor, instance, value) ==
    IF descriptor.as_property
    THEN LET r == invoke(instance, << >>)
         IN Res(r.exc, None, r.attrs, r.counter, r.calls)
    ELSE Res("AttributeError", None, attrs, counter, calls)

\* CacheDescriptor.__set__
descriptor_set(descriptor, instance, value) ==
    IF descriptor.as_property
    THEN LET cache == get_cache(descriptor, instance)
             r == cache_set(attrs, cache, value, << >>, EmptyKwargs)
         IN Res(r.exc, None, r.attrs, counter, calls)
    ELSE Res("AttributeError", None, attrs, counter, calls)

descriptor_delete_always_pops(descriptor, instance) ==
    LET r == pop(descriptor, instance, << >>, EmptyKwargs)
    IN Res(r.exc, None, r.attrs, r.counter, r.calls)

\* CacheDescriptor.__delete__
descriptor_delete(descriptor, instance) ==
    IF descriptor.as_property
    THEN LET r == pop(descriptor, instance, << >>, EmptyKwargs)
         IN Res(r.exc, None, r.attrs, r.counter, r.calls)
    ELSE Res("AttributeError", None, attrs, counter, calls)

---------------------------------------------------------------------------
(* cache.py: BaseCacheDecorator, CacheDecorator, MemoizeDecorator *)

DecoratorClasses == {"CacheDecorator", "MemoizeDecorator"}

\* cache_class of the two decorator classes
cache_class(cls) ==
    IF cls = "CacheDecorator" THEN "Caching" ELSE "Memoizing"

\* cache_descriptor_class of the two decorator classes
cache_descriptor_class(cls) ==
    IF cls = "CacheDecorator" THEN "CacheDescriptor" ELSE "MemoizeDescriptor"

NoCache == BaseCache("", "", "")

\* CacheDecorator.__init__ / BaseCacheDecorator construction
NewDecorator(cls, as_property) ==
    [cls |-> cls, as_property |-> as_property, wrapped |-> "none",
     to_wrap |-> NoTarget, in_class |-> FALSE,
     cache |-> NoCache, descriptor |-> NoDescriptor]

is_in_class_never(target) == FALSE

\* HybridDecorator.get_wrapped_object: in_class is whether the decorated
\* definition stands in a class body
is_in_class(target) == target.in_class_body

get_cache_descriptor_base(d) ==
    CacheDescriptor(cache_descriptor_class(d.cls), d.to_wrap, FALSE)

\* get_cache_descriptor of CacheDecorator (passes as_property) and of
\* BaseCacheDecorator (MemoizeDecorator: as_property stays False)
get_cache_descriptor(d) ==
    CacheDescriptor(cache_descriptor_class(d.cls), d.to_wrap,
                    IF d.cls = "CacheDecorator" THEN d.as_property ELSE FALSE)

\* Decorator.__call__ with BaseCacheDecorator.get_wrapped_object
get_wrapped_object(d, target) ==
    LET d1 == [d EXCEPT !.to_wrap = target, !.in_class = is_in_class(target)]
    IN IF d1.in_class
       THEN [d1 EXCEPT !.wrapped = "descriptor",
                       !.descriptor = get_cache_descriptor(d1)]
       ELSE [d1 EXCEPT !.wrapped = "wrapper",
                       !.cache = BaseCache(cache_class(d1.cls), "decorator",
                                           "cached_value")]

wrapper_always_compute(args, kwargs) ==
    LET r == invoke("module", args)
    IN IF r.exc # "none" THEN r
       ELSE LET st == cache_set(attrs, dec.cache, r.value, args, kwargs)
            IN Res(st.exc, st.value, st.attrs, r.counter, r.calls)

wrapper_stores_on_error(args, kwargs) ==
    LET got == cache_get(attrs, dec.cache, args, kwargs)
    IN IF got.exc = "none"
       THEN Res("none", got.value, attrs, counter, calls)
       ELSE LET r == invoke("module", args)
                st == cache_set(attrs, dec.cache, r.value, args, kwargs)
            IN IF r.exc # "none"
               THEN Res(r.exc, None, st.attrs, r.counter, r.calls)
               ELSE Res(st.exc, st.value, st.attrs, r.counter, r.calls)

\* the wrapper of a free function
wrapper(args, kwargs) ==
    LET got == cache_get(attrs, dec.cache, args, kwargs)
    IN IF got.exc = "none"
       THEN Res("none", got.value, attrs, counter, calls)
       ELSE LET r == invoke("module", args)
            IN IF r.exc # "none" THEN r
               ELSE LET st == cache_set(attrs, dec.cache, r.value, args, kwargs)
                    IN Res(st.exc, st.value, st.attrs, r.counter, r.calls)

\* BaseCacheDecorator.pop
decorator_pop(args, kwargs) ==
    LET r == cache_delete(attrs, dec.cache, args, kwargs)
    IN Res(r.exc, r.value, r.attrs, counter, calls)

---------------------------------------------------------------------------
(* The operations of a program that uses the decorators of cache.py *)

Budget == IF dec.in_class THEN MaxHistMethod ELSE MaxHistFunc

\* a log entry: operation, object, arguments, the value handed in (push,
\* assignment), the exception raised ("none": returned) and the value returned
Entry(op, obj, args, given, r) ==
    [op |-> op, obj |-> obj, args |-> args, given |-> given,
     exc |-> r.exc, value |-> r.value]

\* the operation's effect on the program state, and its log entry
Apply(op, obj, args, given, r) ==
    /\ attrs' = r.attrs
    /\ counter' = r.counter
    /\ calls' = r.calls
    /\ hist' = Append(hist, Entry(op, obj, args, given, r))
    /\ UNCHANGED <<dec, init_counter, keyIn, keyOut>>
    /\ UNCHANGED paramVars
    /\ UNCHANGED callers

NoKeys == << >>

InitCache ==
    /\ dec \in {NewDecorator(cls, p) : cls \in DecoratorClasses, p \in BOOLEAN}
    /\ dec.cls = "MemoizeDecorator" => ~dec.as_property
    /\ attrs = [o \in Objects |-> EmptyDict]
    /\ init_counter \in InitCounters
    /\ counter = [w \in Owners |-> init_counter]
    /\ calls = [w \in Owners |-> 0]
    /\ hist = << >>
    /\ keyIn = NoKeys
    /\ keyOut = NoKeys
    /\ fetched = Nothing
    /\ callers = NoCallers
    /\ klass = NoDeclaration
    /\ request = NoRequest
    /\ built = NotBuilt

\* @decorator applied to a target
Decorate ==
    /\ dec.wrapped = "none"
    /\ \E t \in Targets : dec' = get_wrapped_object(dec, t)
    /\ UNCHANGED <<attrs, counter, calls, init_counter, hist, keyIn, keyOut,
                   fetched>>
    /\ UNCHANGED paramVars
    /\ UNCHANGED callers

\* f(*args) on a decorated free function
FuncCall ==
    /\ dec.wrapped = "wrapper"
    /\ Len(hist) < Budget
    /\ \E args \in ArgLists(dec.to_wrap.nparams) :
          Apply("call", "module", args, None, wrapper(args, EmptyKwargs))
    /\ UNCHANGED fetched

\* f.pop(*args) on a decorated free function
FuncPop ==
    /\ dec.wrapped = "wrapper"
    /\ Len(hist) < Budget
    /\ \E args \in ArgLists(dec.to_wrap.nparams) :
          Apply("pop", "module", args, None, decorator_pop(args, EmptyKwargs))
    /\ UNCHANGED fetched

IsMethod == dec.wrapped = "descriptor" /\ ~dec.descriptor.as_property
IsProperty == dec.wrapped = "descriptor" /\ dec.descriptor.as_property

\* instance.f(*args)
MethodCall ==
    /\ IsMethod
    /\ Len(hist) < Budget
    /\ \E i \in Instances, args \in ArgLists(dec.to_wrap.nparams) :
          LET f == __get__(dec.descriptor, i)
          IN /\ fetched' = f
             /\ Apply("call", i, args, None,
                      getter(dec.descriptor, f.self, args, EmptyKwargs))

\* instance.f.pop(*args)
MethodPop ==
    /\ IsMethod
    /\ Len(hist) < Budget
    /\ \E i \in Instances, args \in ArgLists(dec.to_wrap.nparams) :
          LET f == __get__(dec.descriptor, i)
          IN /\ fetched' = f
             /\ Apply("pop", i, args, None,
                      pop(dec.descriptor, f.pop, args, EmptyKwargs))

\* instance.f.push(value, *args)
MethodPush ==
    /\ IsMethod
    /\ Len(hist) < Budget
    /\ \E i \in Instances, args \in ArgLists(dec.to_wrap.nparams),
          v \in PushedValues :
          LET f == __get__(dec.descriptor, i)
          IN /\ fetched' = f
             /\ Apply("push", i, args, v,
                      push(dec.descriptor, f.push, v, args, EmptyKwargs))

\* instance.f read in property mode
PropGet ==
    /\ IsProperty
    /\ Len(hist) < Budget
    /\ \E i \in Instances :
          Apply("get", i, << >>, None, descriptor_get(dec.descriptor, i))
    /\ UNCHANGED fetched

\* instance.f = value in property mode
PropSet ==
    /\ IsProperty
    /\ Len(hist) < Budget
    /\ \E i \in Instances, v \in PushedValues :
          Apply("set", i, << >>, v, descriptor_set(dec.descriptor, i, v))
    /\ UNCHANGED fetched

\* del instance.f in property mode
PropDelete ==
    /\ IsProperty
    /\ Len(hist) < Budget
    /\ \E i \in Instances :
          Apply("delete", i, << >>, None, descriptor_delete(dec.descriptor, i))
    /\ UNCHANGED fetched

\* Class.f: the attribute read off the class
ClassGet ==
    /\ dec.wrapped = "descriptor"
    /\ Len(hist) < Budget
    /\ fetched' = __get__(dec.descriptor, NoInstance)
    /\ UNCHANGED <<dec, attrs, counter, calls, init_counter, hist, keyIn,
                   keyOut>>
    /\ UNCHANGED paramVars
    /\ UNCHANGED callers

NextCache ==
    \/ Decorate
    \/ ClassGet
    \/ FuncCall
    \/ FuncPop
    \/ MethodCall
    \/ MethodPop
    \/ MethodPush
    \/ PropGet
    \/ PropSet
    \/ PropDelete

Spec == InitCache /\ [][NextCache]_vars

---------------------------------------------------------------------------
(* Observations used by the properties *)

LastOf(h) == h[Len(h)]
Ops(h) == [k \in 1..Len(h) |-> h[k].op]
Values(h) == [k \in 1..Len(h) |-> h[k].value]
Calls(h) == [k \in 1..Len(h) |-> <<h[k].op, h[k].args>>]
\* the operations logged for one object, in order
On(obj) == SelectSeq(hist, LAMBDA e : e.obj = obj)

\* the cache object an operation on obj works with
TheCache(obj) ==
    IF obj = "module" THEN dec.cache ELSE get_cache(dec.descriptor, obj)

\* what is stored under the cache attribute of obj's cache: << >> when the
\* attribute is absent, else <<slot>> (a value, or the memoizing dict)
StoreIn(a, obj) ==
    LET c == TheCache(obj)
    IN IF c.attr \in DOMAIN a[c.parent]
       THEN <<a[c.parent][c.attr]>> ELSE << >>
Store(obj) == StoreIn(attrs, obj)

\* the memoizing dict of obj ({} when the attribute is absent)
DictIn(a, obj) == IF StoreIn(a, obj) = << >> THEN EmptyDict ELSE StoreIn(a, obj)[1]

\* whether an entry is cached for obj under the key of args
HasEntry(obj, args) ==
    /\ Store(obj) # << >>
    /\ TheCache(obj).cls = "Memoizing" =>
          _get_key(args, EmptyKwargs) \in DOMAIN Store(obj)[1]

FuncCacheWorld == dec.wrapped = "wrapper" /\ dec.cls = "CacheDecorator"
MemoWorld == dec.wrapped # "none" /\ dec.cls = "MemoizeDecorator"
ParamProperty == IsProperty /\ dec.to_wrap.nparams > 0

hello == <<str("hello")>>
world == <<str("world")>>

---------------------------------------------------------------------------
(* Properties of cache.py, checked under Spec *)

\* C1: a call of a free function under CacheDecorator calls the wrapped
\* function exactly when no value is cached, and returns the cached value
\* otherwise; call, call calls it once and returns the same value twice;
\* call, call, pop, call calls it twice.
C1_CallComputesOnlyOnMiss ==
    [][ (FuncCacheWorld /\ hist' # hist) =>
          LET e == LastOf(hist')
              cached == Store("module") # << >>
          IN /\ e.op = "call" =>
                   /\ e.exc = "none"
                   /\ calls'["module"] =
                         calls["module"] + (IF cached THEN 0 ELSE 1)
                   /\ cached => e.value = Store("module")[1]
                   /\ StoreIn(attrs', "module") = <<e.value>>
             /\ Ops(hist') = <<"call", "call">> =>
                   /\ calls'["module"] = 1
                   /\ hist'[1].value = hist'[2].value
             /\ Ops(hist') = <<"call", "call", "pop", "call">> =>
                   /\ calls'["module"] = 2
                   /\ hist'[4].value = hist'[1].value + 1 ]_vars

C1_Witness ==
    /\ FuncCacheWorld
    /\ Ops(hist) = <<"call", "call", "pop", "call">>
    /\ calls["module"] = 2

\* C2: an operation on one instance leaves the cache store (and the whole
\* __dict__) of every other instance unchanged.
C2_PerInstanceIsolation ==
    [][ (dec.wrapped = "descriptor" /\ hist' # hist) =>
          \A j \in Instances \ {LastOf(hist').obj} :
              /\ StoreIn(attrs', j) = StoreIn(attrs, j)
              /\ attrs'[j] = attrs[j] ]_vars

C2_Witness ==
    /\ dec.wrapped = "descriptor"
    /\ Len(hist) > 0
    /\ LastOf(hist).op \in {"pop", "delete"}
    /\ LastOf(hist).exc = "none"
    /\ \E j \in Instances \ {LastOf(hist).obj} : Store(j) # << >>

\* C3: for a memoized callable a successful pop(args) removes the entry of
\* that key only and returns it; a call whose key is cached returns the
\* entry without calling the wrapped callable, a call whose key is not
\* cached calls it and stores the result; with the counter at 7 the calls
\* hello, world, hello, pop(hello), hello, world give 8, 9, 8, 8, 10, 9.
C3_PopEvictsOnlyItsKey ==
    [][ (MemoWorld /\ hist' # hist) =>
          LET e == LastOf(hist')
              key == _get_key(e.args, EmptyKwargs)
              before == DictIn(attrs, e.obj)
              after == DictIn(attrs', e.obj)
          IN /\ (e.op = "pop" /\ e.exc = "none") =>
                   /\ key \in DOMAIN before
                   /\ e.value = before[key]
                   /\ DOMAIN after = (DOMAIN before) \ {key}
                   /\ \A k \in DOMAIN after : after[k] = before[k]
             /\ (e.op = "call" /\ key \in DOMAIN before) =>
                   /\ e.exc = "none"
                   /\ e.value = before[key]
                   /\ calls' = calls
                   /\ after = before
             /\ (e.op = "call" /\ key \notin DOMAIN before) =>
                   /\ e.exc = "none"
                   /\ calls'[e.obj] = calls[e.obj] + 1
                   /\ after = Put(before, key, e.value)
             /\ ( /\ init_counter = 7
                  /\ Calls(hist') = << <<"call", hello>>, <<"call", world>>,
                                       <<"call", hello>>, <<"pop", hello>>,
                                       <<"call", hello>>, <<"call", world>> >> )
                   => Values(hist') = <<8, 9, 8, 8, 10, 9>> ]_vars

C3_Witness ==
    /\ MemoWorld
    /\ init_counter = 7
    /\ Calls(hist) = << <<"call", hello>>, <<"call", world>>,
                        <<"call", hello>>, <<"pop", hello>>,
                        <<"call", hello>>, <<"call", world>> >>

\* C7: pop (and, in property mode, del) of a key without a cached entry
\* raises NotInCache and changes nothing; a pop that directly follows a
\* successful pop of the same key on the same object raises NotInCache.
C7_EvictAbsentRaisesNotInCache ==
    [][ (dec.wrapped # "none" /\ hist' # hist) =>
          LET e == LastOf(hist')
          IN /\ (e.op \in {"pop", "delete"} /\ ~HasEntry(e.obj, e.args)) =>
                   /\ e.exc = NotInCache
                   /\ attrs' = attrs
             /\ ( /\ Len(hist) > 0
                  /\ e.op \in {"pop", "delete"}
                  /\ LastOf(hist).op = e.op
                  /\ LastOf(hist).obj = e.obj
                  /\ LastOf(hist).args = e.args
                  /\ LastOf(hist).exc = "none" ) => e.exc = NotInCache ]_vars

C7_Witness ==
    /\ Len(hist) > 1
    /\ LastOf(hist).op \in {"pop", "delete"}
    /\ LastOf(hist).exc = NotInCache
    /\ hist[Len(hist) - 1].op = LastOf(hist).op
    /\ hist[Len(hist) - 1].obj = LastOf(hist).obj
    /\ hist[Len(hist) - 1].args = LastOf(hist).args
    /\ hist[Len(hist) - 1].exc = "none"

\* C8: on an instance whose counter starts at 5 the operations foo(), foo(),
\* foo.pop(), foo() of a single-value cached method give 6, 6, 6, 7,
\* whatever happens on other instances in between.
C8_MethodScenario ==
    (IsMethod /\ dec.cls = "CacheDecorator" /\ init_counter = 5) =>
        \A i \in Instances :
            Ops(On(i)) = <<"call", "call", "pop", "call">> =>
                /\ Values(On(i)) = <<6, 6, 6, 7>>
                /\ \A k \in 1..4 : On(i)[k].exc = "none"

C8_Witness ==
    /\ IsMethod
    /\ dec.cls = "CacheDecorator"
    /\ init_counter = 5
    /\ \E i \in Instances : Ops(On(i)) = <<"call", "call", "pop", "call">>

\* C9: in property mode an assignment stores the assigned value without
\* calling the wrapped method, a read of a cached attribute returns the
\* cached value without calling it, del of a cached attribute removes the
\* entry, and a read without an entry calls the wrapped method.
C9_PropertyAssignAndDelete ==
    [][ (IsProperty /\ hist' # hist) =>
          LET e == LastOf(hist')
              i == e.obj
          IN /\ e.op = "set" =>
                   /\ e.exc = "none"
                   /\ calls' = calls
                   /\ StoreIn(attrs', i) = <<e.given>>
             /\ (e.op = "get" /\ Store(i) # << >>) =>
                   /\ e.exc = "none"
                   /\ e.value = Store(i)[1]
                   /\ calls' = calls
                   /\ attrs' = attrs
             /\ (e.op = "delete" /\ Store(i) # << >>) =>
                   /\ e.exc = "none"
                   /\ StoreIn(attrs', i) = << >>
             /\ (e.op = "get" /\ Store(i) = << >>) =>
                   calls'[i] = calls[i] + 1 ]_vars

C9_Witness ==
    /\ IsProperty
    /\ \E i \in Instances :
          /\ Ops(On(i)) = <<"set", "get", "delete", "get">>
          /\ On(i)[2].value = On(i)[1].given
          /\ On(i)[3].exc = "none"
          /\ On(i)[4].exc = "none"
          /\ On(i)[4].value = init_counter + 1

C11_ClassAndInstanceRead ==
    [][ IsMethod =>
          /\ (hist' = hist /\ fetched' # fetched) =>
                /\ fetched' = Attribute("function", dec.to_wrap,
                                    NoInstance, NoInstance, NoInstance)
                /\ UNCHANGED <<attrs, counter, calls>>
          /\ hist' # hist =>
                LET e == LastOf(hist')
                    r == getter(dec.descriptor, e.obj, e.args, EmptyKwargs)
                IN /\ fetched'.kind = "partial"
                   /\ fetched'.method = dec.to_wrap
                   /\ fetched'.self = e.obj
                   /\ fetched'.pop = e.obj
                   /\ fetched'.push = e.obj
                   /\ e.op = "call" =>
                         /\ e.exc = r.exc
                         /\ e.value = r.value
                         /\ attrs' = r.attrs
                         /\ calls' = r.calls
                   /\ e.op \in {"pop", "push"} =>
                         /\ calls' = calls
                         /\ \A o \in Objects \ {e.obj} : attrs'[o] = attrs[o]
                   /\ (e.op = "pop" /\ e.exc = "none") =>
                         /\ Store(e.obj) # << >>
                         /\ StoreIn(attrs', e.obj) # Store(e.obj)
                   /\ e.op = "push" =>
                         StoreIn(attrs', e.obj) # << >> ]_vars

\* a class read after a pop through an instance while the other instance
\* still holds a cached value
C11_Witness ==
    /\ IsMethod
    /\ fetched.kind = "function"
    /\ fetched.method = dec.to_wrap
    /\ Len(hist) > 1
    /\ LastOf(hist).op = "pop"
    /\ LastOf(hist).exc = "none"
    /\ \E j \in Instances \ {LastOf(hist).obj} : Store(j) # << >>

\* C12: wrapping dispatches on in_class, which is fixed when the target is
\* wrapped (nothing about the decorator changes afterwards): a free
\* function gets a wrapper whose store is the attribute cached_value of the
\* decorator instance, whatever the arguments of the call; a method gets a
\* descriptor whose store is, on each instance operated on, the attribute
\* named after the method; no operation writes to the other location.
C12_DispatchOnInClass ==
    [][ /\ dec.wrapped # "none" => dec' = dec
        /\ dec'.wrapped # "none" =>
              /\ dec'.in_class = dec'.to_wrap.in_class_body
              /\ (dec'.wrapped = "descriptor") = dec'.in_class
              /\ (dec'.wrapped = "wrapper") = ~dec'.in_class
        /\ dec'.wrapped = "wrapper" =>
              /\ dec'.cache = BaseCache(cache_class(dec'.cls), "decorator",
                                        "cached_value")
              /\ \A i \in Instances : attrs'[i] = EmptyDict
              /\ DOMAIN attrs'["decorator"] \subseteq {"cached_value"}
              /\ (hist' # hist /\ LastOf(hist').op = "call") =>
                    "cached_value" \in DOMAIN attrs'["decorator"]
        /\ dec'.wrapped = "descriptor" =>
              LET attr == dec'.descriptor.cache_attribute
                  name == dec'.to_wrap.name
              IN /\ attr \in {name \o "_cache_" \o hash(name),
                               name \o "_memoize_" \o hash(name)}
                 /\ attrs'["decorator"] = EmptyDict
                 /\ \A i \in Instances : DOMAIN attrs'[i] \subseteq {attr}
                 /\ (hist' # hist /\ LastOf(hist').exc = "none"
                       /\ LastOf(hist').op \in {"call", "get"}) =>
                       attr \in DOMAIN attrs'[LastOf(hist').obj] ]_vars

\* a method cached on both instances, nothing on the decorator instance
C12_Witness ==
    /\ dec.wrapped = "descriptor"
    /\ dec.in_class
    /\ \A i \in Instances :
          dec.descriptor.cache_attribute \in DOMAIN attrs[i]
    /\ attrs["decorator"] = EmptyDict
    /\ \E k \in 1..Len(hist) : hist[k].op = "call"

\* the operations logged for one object with one argument list, in order
OnKey(obj, args) == SelectSeq(hist, LAMBDA e : e.obj = obj /\ e.args = args)

\* C14: push(value, *args) on an instance's cached or memoized method
\* succeeds without calling the wrapped method, whether or not a value was
\* cached for that key; the next call on that instance with the same
\* arguments (the next operation on that key; for the single-value store,
\* the next operation on the instance) returns the pushed value without
\* calling the wrapped method.
C14_PushThenCall ==
    [][ (IsMethod /\ hist' # hist) =>
          LET e == LastOf(hist')
              \* the single-value store has one slot for all arguments
              before == IF dec.descriptor.cache_class = "Caching"
                        THEN On(e.obj) ELSE OnKey(e.obj, e.args)
          IN /\ e.op = "push" =>
                   /\ e.exc = "none"
                   /\ calls' = calls
                   /\ counter' = counter
             /\ ( /\ e.op = "call"
                  /\ Len(before) > 0
                  /\ LastOf(before).op = "push"
                  /\ LastOf(before).args = e.args ) =>
                   /\ e.exc = "none"
                   /\ e.value = LastOf(before).given
                   /\ calls' = calls
                   /\ counter' = counter ]_vars

\* a value computed and cached, then replaced by push and served
C14_Witness ==
    /\ IsMethod
    /\ \E i \in Instances :
          /\ Ops(On(i)) = <<"call", "push", "call">>
          /\ On(i)[1].args = On(i)[2].args
          /\ On(i)[2].args = On(i)[3].args
          /\ On(i)[1].value = init_counter + 1
          /\ On(i)[3].value = On(i)[2].given
          /\ calls[i] = 1

---------------------------------------------------------------------------
(* Memoizing._get_key as a function of its arguments *)

PyValues == {int("1"), int("2"), str("1")}
KwValues == {int("1"), int("2")}
KwNameSet == {KwNames[i] : i \in 1..Len(KwNames)}

ArgTuples == UNION {[1..k -> PyValues] : k \in 0..MaxArgs}

\* keyword arguments in call order: no name twice
KwargLists ==
    {kw \in UNION {[1..k -> KwNameSet \X KwValues] : k \in 0..Len(KwNames)} :
        \A i, j \in 1..Len(kw) : kw[i][1] = kw[j][1] => i = j}

KeyCalls == [args : ArgTuples, kwargs : KwargLists]

InitKey ==
    /\ keyIn \in KeyCalls \X KeyCalls
    /\ keyOut = NoKeys
    /\ dec = NewDecorator("MemoizeDecorator", FALSE)
    /\ attrs = [o \in Objects |-> EmptyDict]
    /\ init_counter = 0
    /\ counter = [w \in Owners |-> 0]
    /\ calls = [w \in Owners |-> 0]
    /\ hist = << >>
    /\ fetched = Nothing
    /\ callers = NoCallers
    /\ klass = NoDeclaration
    /\ request = NoRequest
    /\ built = NotBuilt

\* the keys of the two calls
GetKey ==
    /\ keyOut = NoKeys
    /\ keyOut' = <<_get_key(keyIn[1].args, keyIn[1].kwargs),
                   _get_key(keyIn[2].args, keyIn[2].kwargs)>>
    /\ UNCHANGED <<dec, attrs, counter, calls, init_counter, hist, keyIn, fetched>>
    /\ UNCHANGED paramVars
    /\ UNCHANGED callers

NextKey == GetKey

SpecKey == InitKey /\ [][NextKey]_vars

ItemSet(kw) == {kw[i] : i \in 1..Len(kw)}

\* C4: two calls get the same key exactly when their positional arguments
\* are the same sequence and their keyword arguments are the same set of
\* (name, value) pairs, in whatever order the keywords were written; the
\* keys are the strings the tests expect.
C4_KeyCanonical ==
    /\ _get_key(<<str("foo")>>, << >>) = "('foo',)[]"
    /\ _get_key(<<str("foo"), str("bar")>>, << >>) = "('foo', 'bar')[]"
    /\ _get_key(<< >>, << <<"b", str("x")>>, <<"a", str("bar")>> >>)
          = "()[('a', 'bar'), ('b', 'x')]"
    /\ keyOut # NoKeys =>
          ( keyOut[1] = keyOut[2]
              <=> ( /\ keyIn[1].args = keyIn[2].args
                    /\ ItemSet(keyIn[1].kwargs) = ItemSet(keyIn[2].kwargs) ) )

C4_Witness ==
    /\ keyOut # NoKeys
    /\ Len(keyIn[1].kwargs) = 2
    /\ keyIn[1].kwargs # keyIn[2].kwargs
    /\ ItemSet(keyIn[1].kwargs) = ItemSet(keyIn[2].kwargs)
    /\ Len(keyIn[1].args) = 1
    /\ keyIn[1].args = keyIn[2].args
    /\ keyOut[1] = keyOut[2]

---------------------------------------------------------------------------
(* decorators.py: the Cache and Memoize decorators *)

MaxHistLegacy == 4          \* operations per behaviour
LegacyInitCounters == {-1, 5}
LegacyClasses == {"Cache", "Memoize"}

\* bool(value) of an integer or None
bool(v) == v # None /\ v # 0

\* kwargs.get(name, default) and kwargs without name
KwGet(kwargs, name, default) ==
    IF \E i \in 1..Len(kwargs) : kwargs[i][1] = name
    THEN kwargs[CHOOSE i \in 1..Len(kwargs) : kwargs[i][1] = name][2]
    ELSE default
KwWithout(kwargs, name) == SelectSeq(kwargs, LAMBDA kv : kv[1] # name)

\* str() of a dict of keyword arguments
str_dict(kwargs) ==
    "{" \o join([i \in 1..Len(kwargs) |->
                    "'" \o kwargs[i][1] \o "': " \o repr(kwargs[i][2])],
                ", ") \o "}"

\* DEFAULTS of Cache and of Memoize
DEFAULTS(cls) ==
    [debug |-> FALSE,
     default_cache_value |-> IF cls = "Cache" THEN None ELSE EmptyDict,
     cache_attr_pattern |-> "_",
     recompute |-> FALSE,
     recompute_parameter |-> "recompute"]

\* Decorator.__init__ with no arguments: the parameters are the DEFAULTS
NewLegacy(cls) ==
    [cls |-> cls, parameters |-> DEFAULTS(cls), wrapped |-> "none",
     to_wrap |-> NoTarget, in_class |-> FALSE, cache_attr |-> ""]

\* Cache.init_cache; has_args: whether positional arguments were given
init_cache(a, d, obj, has_args) ==
    IF d.in_class /\ has_args
    THEN IF d.cache_attr \notin DOMAIN a[obj]
         THEN [a EXCEPT ![obj] =
                  Put(@, d.cache_attr, d.parameters.default_cache_value)]
         ELSE a
    ELSE IF ~d.in_class /\ "cache" \notin DOMAIN a["decorator"]
         THEN [a EXCEPT !["decorator"] =
                  Put(@, "cache", d.parameters.default_cache_value)]
         ELSE a

\* Cache.get_cache
legacy_get_cache(a, d, obj) ==
    IF d.in_class THEN a[obj][d.cache_attr] ELSE a["decorator"]["cache"]

\* Cache.in_cache and Memoize.in_cache (which sets self.cache_key)
in_cache(a, d, cache, args, kwargs) ==
    IF d.cls = "Cache"
    THEN [result |-> bool(cache), attrs |-> a]
    ELSE LET key == repr_tuple(args) \o str_dict(kwargs)
         IN [result |-> key \in DOMAIN cache,
             attrs |-> [a EXCEPT !["decorator"] = Put(@, "cache_key", key)]]

\* the cache slot replaced (Cache) or changed in place (Memoize)
StoreLegacy(a, d, obj, new) ==
    IF d.in_class
    THEN [a EXCEPT ![obj] = Put(@, d.cache_attr, new)]
    ELSE [a EXCEPT !["decorator"] = Put(@, "cache", new)]

\* Cache.from_cache and Memoize.from_cache
from_cache(a, d, obj, cache) ==
    IF d.cls = "Cache"
    THEN Ok(cache, a)
    ELSE IF "cache_key" \notin DOMAIN a["decorator"]
         THEN Raise("AttributeError", a)
         ELSE LET key == a["decorator"]["cache_key"]
              IN Ok(cache[key],
                    [a EXCEPT !["decorator"] = Del(@, "cache_key")])

\* Cache.to_cache and Memoize.to_cache
to_cache(a, d, obj, cache, value) ==
    IF d.cls = "Cache"
    THEN Ok(None, StoreLegacy(a, d, obj, value))
    ELSE IF "cache_key" \notin DOMAIN a["decorator"]
         THEN Raise("AttributeError", a)
         ELSE LET key == a["decorator"]["cache_key"]
                  a1 == [a EXCEPT !["decorator"] = Del(@, "cache_key")]
              IN Ok(None, StoreLegacy(a1, d, obj, Put(cache, key, value)))

\* Decorator.__call__ with Cache.get_wrapped_object
legacy_get_wrapped_object(d, target) ==
    [d EXCEPT !.to_wrap = target,
              !.cache_attr = d.parameters.cache_attr_pattern \o target.name,
              !.in_class = is_in_class(target),
              !.wrapped = "wrapper"]

\* the wrapper built by Cache.get_wrapped_object; obj is args[0] for a
\* method and "module" for a function, args the other positional arguments
legacy_wrapper(d, obj, args, kwargs) ==
    LET a1 == IF "cache" \notin DOMAIN attrs["decorator"]
              THEN init_cache(attrs, d, obj, d.in_class \/ Len(args) > 0)
              ELSE attrs
        recompute == KwGet(kwargs, d.parameters.recompute_parameter,
                           d.parameters.recompute)
        kw == KwWithout(kwargs, d.parameters.recompute_parameter)
        cache == legacy_get_cache(a1, d, obj)
        chk == IF recompute THEN [result |-> FALSE, attrs |-> a1]
               ELSE in_cache(a1, d, cache, args, kw)
    IN IF ~recompute /\ chk.result
       THEN LET got == from_cache(chk.attrs, d, obj, cache)
            IN Res(got.exc, got.value, got.attrs, counter, calls)
       ELSE LET r == invoke(obj, args)
            IN IF r.exc # "none"
               THEN Res(r.exc, None, chk.attrs, r.counter, r.calls)
               ELSE LET st == to_cache(chk.attrs, d, obj, cache, r.value)
                    IN IF st.exc # "none"
                       THEN Res(st.exc, None, st.attrs, r.counter, r.calls)
                       ELSE Res("none", r.value, st.attrs, r.counter, r.calls)

---------------------------------------------------------------------------
(* The operations of a program that uses Cache / Memoize of decorators.py *)

LegacyEntry(obj, args, kwargs, r) ==
    [op |-> "call", obj |-> obj, args |-> args, kwargs |-> kwargs,
     exc |-> r.exc, value |-> r.value]

\* the keyword arguments of a call: none, or the override keyword
CallKwargs == { << >>, << <<"recompute", TRUE>> >> }

InitLegacy ==
    /\ \E cls \in LegacyClasses : dec = NewLegacy(cls)
    /\ attrs = [o \in Objects |-> EmptyDict]
    /\ init_counter \in LegacyInitCounters
    /\ counter = [w \in Owners |-> init_counter]
    /\ calls = [w \in Owners |-> 0]
    /\ hist = << >>
    /\ keyIn = NoKeys
    /\ keyOut = NoKeys
    /\ fetched = Nothing
    /\ callers = NoCallers
    /\ klass = NoDeclaration
    /\ request = NoRequest
    /\ built = NotBuilt

\* @decorator applied to a target: get_wrapped_object, which calls
\* init_cache() without arguments
LegacyDecorate ==
    /\ dec.wrapped = "none"
    /\ \E t \in Targets :
          /\ dec' = legacy_get_wrapped_object(dec, t)
          /\ attrs' = init_cache(attrs, dec', "module", FALSE)
    /\ UNCHANGED <<counter, calls, init_counter, hist, keyIn, keyOut, fetched>>
    /\ UNCHANGED paramVars
    /\ UNCHANGED callers

\* f(*args, **kwargs) or instance.f(*args, **kwargs)
LegacyCall ==
    /\ dec.wrapped = "wrapper"
    /\ Len(hist) < MaxHistLegacy
    /\ \E obj \in (IF dec.in_class THEN Instances ELSE {"module"}),
          args \in ArgLists(dec.to_wrap.nparams), kwargs \in CallKwargs :
          LET r == legacy_wrapper(dec, obj, args, kwargs)
          IN /\ attrs' = r.attrs
             /\ counter' = r.counter
             /\ calls' = r.calls
             /\ hist' = Append(hist, LegacyEntry(obj, args, kwargs, r))
    /\ UNCHANGED <<dec, init_counter, keyIn, keyOut, fetched>>
    /\ UNCHANGED paramVars
    /\ UNCHANGED callers

NextLegacy ==
    \/ LegacyDecorate
    \/ LegacyCall

SpecLegacy == InitLegacy /\ [][NextLegacy]_vars

Recompute(e) == KwGet(e.kwargs, "recompute", FALSE)

\* C5: under Cache a call with recompute=True calls the wrapped callable,
\* stores and returns the new result, and a call without the override that
\* follows it on the same object returns that result without computing.
C5_RecomputeThenCached ==
    [][ (dec.cls = "Cache" /\ hist' # hist) =>
          LET e == LastOf(hist')
              o == e.obj
          IN /\ Recompute(e) =>
                   /\ e.exc = "none"
                   /\ calls'[o] = calls[o] + 1
                   /\ e.value = counter'[o]
                   /\ legacy_get_cache(attrs', dec, o) = e.value
             /\ (~Recompute(e) /\ Len(On(o)) > 0 /\ Recompute(LastOf(On(o)))) =>
                   /\ e.value = LastOf(On(o)).value
                   /\ calls' = calls ]_vars

\* C6: under Memoize a call with recompute=True calls the wrapped callable,
\* stores the new result under the key of its own arguments and returns it.
C6_MemoizeRecompute ==
    [][ (dec.cls = "Memoize" /\ hist' # hist) =>
          LET e == LastOf(hist')
              o == e.obj
              key == repr_tuple(e.args) \o str_dict(<< >>)
          IN Recompute(e) =>
                /\ e.exc = "none"
                /\ calls'[o] = calls[o] + 1
                /\ e.value = counter'[o]
                /\ key \in DOMAIN legacy_get_cache(attrs', dec, o)
                /\ legacy_get_cache(attrs', dec, o)[key] = e.value ]_vars

\* C13: under Cache, once a call on an object has stored a result, every
\* later call without the override returns the stored result without
\* calling the wrapped callable, whatever the stored value is (falsy
\* values such as 0 included).
C13_FalsyValueStaysCached ==
    [][ (dec.cls = "Cache" /\ hist' # hist) =>
          LET e == LastOf(hist')
              o == e.obj
          IN ( /\ ~Recompute(e)
               /\ \E k \in 1..Len(On(o)) : On(o)[k].exc = "none" ) =>
                /\ e.exc = "none"
                /\ e.value = LastOf(On(o)).value
                /\ e.value = legacy_get_cache(attrs, dec, o)
                /\ calls' = calls ]_vars

---------------------------------------------------------------------------
(* decorators.py: Decorator.validate_parameter_config, get_parameters and  *)
(* construction.  A parameter string is the sequence of its characters.    *)

MaxParams == 3          \* entries of PARAMETERS
MaxPosArgs == 2         \* positional arguments of a call

\* the parameter strings: a, b, *a, *r, **k, **r, 1a, a*, and a followed
\* by a newline
ParamStrings ==
    { <<"a">>, <<"b">>, <<"*", "a">>, <<"*", "r">>, <<"*", "*", "k">>,
      <<"*", "*", "r">>, <<"1", "a">>, <<"a", "*">>, <<"a", "\n">> }
\* keys a DEFAULTS dict may have: a, b, *r, z
DefaultKeys == { <<"a">>, <<"b">>, <<"*", "r">>, <<"z">> }
DefaultValue == 9
\* keyword names (a, b, z) and values of a call
CallNames == { <<"a">>, <<"b">>, <<"z">> }
KeywordValue == 7
PositionalValues == {1, 2}

Letters == {"a", "b", "k", "r", "z", "_"}       \* [A-Za-z_]
WordChars == Letters \cup {"1"}                 \* \w

\* p.startswith('*'), p[n:], p.replace('*', '')
startswith_star(p) == Len(p) > 0 /\ p[1] = "*"
from(p, n) == SubSeq(p, n + 1, Len(p))
replace_star(p) == SelectSeq(p, LAMBDA c : c # "*")

\* where $ matches: at the end of the string, and just before a newline
\* that ends the string
dollar(p) ==
    {Len(p)} \cup (IF Len(p) > 0 /\ p[Len(p)] = "\n" THEN {Len(p) - 1} ELSE {})

\* ^[A-Za-z_]\w*$
identifier_re_normal(p) ==
    \E end \in dollar(p) :
        /\ end > 0
        /\ p[1] \in Letters
        /\ \A i \in 2..end : p[i] \in WordChars

identifier_re_one_star(p) ==
    \/ identifier_re_normal(p)
    \/ startswith_star(p) /\ identifier_re_normal(from(p, 1))

\* ^(?:\*{1,2})?[A-Za-z_]\w*$
identifier_re_arbitrary(p) ==
    \/ identifier_re_normal(p)
    \/ startswith_star(p) /\ identifier_re_normal(from(p, 1))
    \/ /\ startswith_star(p)
       /\ startswith_star(from(p, 1))
       /\ identifier_re_normal(from(p, 2))

Elements(seq) == {seq[i] : i \in 1..Len(seq)}

\* len(set(identifiers)) < len(identifiers)
redefined(P) ==
    Cardinality({replace_star(P[i]) : i \in 1..Len(P)}) < Len(P)

\* the identifier syntax loop: all but the last two entries must match the
\* normal pattern, the last two the arbitrary one
invalid_identifier(P) ==
    \E i \in 1..Len(P) :
        IF i - 1 < Len(P) - 2
        THEN ~identifier_re_normal(P[i])
        ELSE ~identifier_re_arbitrary(P[i])

\* the check of arbitrary = PARAMETERS[-2:]
misplaced_arbitrary(P) ==
    /\ Len(P) >= 2
    /\ LET first == P[Len(P) - 1]
           second == P[Len(P)]
       IN IF startswith_star(first) /\ startswith_star(second)
          THEN \/ startswith_star(from(first, 1))
               \/ ~startswith_star(from(second, 1))
          ELSE startswith_star(first)

\* the loop over DEFAULTS.keys()
invalid_defaults(P, D) ==
    \E k \in DOMAIN D : k \notin Elements(P) \/ startswith_star(k)

\* the final loop: a parameter without default after one with a default
optional_before_required(P, D) ==
    /\ DOMAIN D # {}
    /\ \E i, j \in 1..Len(P) :
          /\ i < j
          /\ ~startswith_star(P[i]) /\ P[i] \in DOMAIN D
          /\ ~startswith_star(P[j]) /\ P[j] \notin DOMAIN D

\* Decorator.validate_parameter_config: the exception raised, or "none"
validate_parameter_config(k) ==
    IF \/ redefined(k.PARAMETERS)
       \/ invalid_identifier(k.PARAMETERS)
       \/ misplaced_arbitrary(k.PARAMETERS)
       \/ invalid_defaults(k.PARAMETERS, k.DEFAULTS)
       \/ optional_before_required(k.PARAMETERS, k.DEFAULTS)
    THEN "SyntaxError" ELSE "none"

Min(a, b) == IF a < b THEN a ELSE b
\* d restricted to the keys in keys
Only(d, keys) == [x \in (DOMAIN d) \cap keys |-> d[x]]
\* dict.update
Update(d, e) ==
    [x \in (DOMAIN d) \cup (DOMAIN e) |-> IF x \in DOMAIN e THEN e[x] ELSE d[x]]

Bound(parameters) == [exc |-> "none", parameters |-> parameters]
Failed(exc) == [exc |-> exc, parameters |-> EmptyDict]

repeated_never(kwargs, params_set) == FALSE

\* for k in kwargs.keys(): if k in params_set
repeated(kwargs, params_set) ==
    \E k \in DOMAIN kwargs : k \in Elements(params_set)

args_to_collector_reversed(args, n) ==
    [i \in 1..(Len(args) - n) |-> args[Len(args) + 1 - i]]

\* args[args_to_set:]
args_to_collector(args, n) == from(args, n)

default_or_keyword(n, kwargs, D) ==
    IF n \in DOMAIN D THEN D[n] ELSE kwargs[n]

\* parameters[p] = kwargs.pop(p) if p in kwargs, else self.DEFAULTS[p]
keyword_or_default(n, kwargs, D) ==
    IF n \in DOMAIN kwargs THEN kwargs[n] ELSE D[n]

\* Decorator.get_parameters
get_parameters(k, args, kwargs) ==
    LET P == k.PARAMETERS
        D == k.DEFAULTS
        params_to_set == SelectSeq(P, LAMBDA q : ~startswith_star(q))
        params_arbitrary == SelectSeq(P, startswith_star)
        args_parameters ==
            SelectSeq(params_arbitrary,
                      LAMBDA q : ~startswith_star(from(q, 1)))
        kwargs_parameters ==
            SelectSeq(params_arbitrary,
                      LAMBDA q : startswith_star(from(q, 1)))
        \* a name, or << >> for None; both are falsy when empty
        args_parameter ==
            IF Len(args_parameters) > 0 THEN from(args_parameters[1], 1)
            ELSE << >>
        kwargs_parameter ==
            IF Len(kwargs_parameters) > 0 THEN from(kwargs_parameters[1], 2)
            ELSE << >>
        args_to_set == Min(Len(params_to_set), Len(args))
        params_set == SubSeq(params_to_set, 1, args_to_set)
        \* dict(zip(...)): a later duplicate name overwrites an earlier one
        positional ==
            [n \in Elements(params_set) |->
                args[CHOOSE i \in 1..args_to_set :
                        /\ params_set[i] = n
                        /\ \A j \in 1..args_to_set :
                              params_set[j] = n => j <= i]]
        remaining == from(params_to_set, args_to_set)
        extra == Len(args) > args_to_set
        with_args ==
            IF extra
            THEN Put(positional, args_parameter,
                     args_to_collector(args, args_to_set))
            ELSE positional
        from_keywords ==
            [n \in Elements(remaining) |-> keyword_or_default(n, kwargs, D)]
        left == Only(kwargs, (DOMAIN kwargs) \ Elements(remaining))
        all_set == params_set \o remaining
        named == Update(with_args, from_keywords)
    IN IF extra /\ args_parameter = << >>
       THEN Failed("TypeError")
       ELSE IF \E i \in 1..Len(remaining) :
                  remaining[i] \notin DOMAIN kwargs /\ remaining[i] \notin DOMAIN D
       THEN Failed("TypeError")
       ELSE IF left = EmptyDict
       THEN Bound(named)
       ELSE IF repeated(left, all_set)
       THEN Failed("SyntaxError")
       ELSE IF kwargs_parameter # << >>
       THEN Bound(Put(named, kwargs_parameter, left))
       ELSE Failed("TypeError")

\* Decorator.__init__: validate_parameter_config, then set_parameters
__init__(k, args, kwargs) ==
    IF validate_parameter_config(k) # "none"
    THEN Failed(validate_parameter_config(k))
    ELSE get_parameters(k, args, kwargs)

---------------------------------------------------------------------------
(* The operations on a Decorator subclass and its instance *)

ParameterLists == UNION {[1..n -> ParamStrings] : n \in 0..MaxParams}
DefaultDicts == {[x \in keys |-> DefaultValue] : keys \in SUBSET DefaultKeys}
Declarations == [PARAMETERS : ParameterLists, DEFAULTS : DefaultDicts]

PositionalLists == UNION {[1..n -> PositionalValues] : n \in 0..MaxPosArgs}
KeywordDicts == {[x \in names |-> KeywordValue] : names \in SUBSET CallNames}
\* the arguments tried at construction
ConstructionArgs == { << >>, <<1>> }
ConstructionKwargs == {EmptyDict, [x \in {<<"a">>} |-> KeywordValue]}

Request(op, args, kwargs, r) ==
    [op |-> op, args |-> args, kwargs |-> kwargs, exc |-> r.exc,
     parameters |-> r.parameters]

InitParams ==
    /\ klass \in Declarations
    /\ request = NoRequest
    /\ built = NotBuilt
    /\ dec = NewDecorator("CacheDecorator", FALSE)
    /\ attrs = [o \in Objects |-> EmptyDict]
    /\ init_counter = 0
    /\ counter = [w \in Owners |-> 0]
    /\ calls = [w \in Owners |-> 0]
    /\ hist = << >>
    /\ keyIn = NoKeys
    /\ keyOut = NoKeys
    /\ fetched = Nothing
    /\ callers = NoCallers

\* d.validate_parameter_config() called on its own
Validate ==
    /\ request.op = "none"
    /\ request' = Request("validate_parameter_config", << >>, EmptyDict,
                          Failed(validate_parameter_config(klass)))
    /\ UNCHANGED <<klass, built>>
    /\ UNCHANGED cacheVars

\* d.get_parameters(*args, **kwargs) on a class whose declaration is valid
GetParameters ==
    /\ request.op = "none"
    /\ validate_parameter_config(klass) = "none"
    /\ \E args \in PositionalLists, kwargs \in KeywordDicts :
          request' = Request("get_parameters", args, kwargs,
                             get_parameters(klass, args, kwargs))
    /\ UNCHANGED <<klass, built>>
    /\ UNCHANGED cacheVars

\* klass(*args, **kwargs)
Construct ==
    /\ request.op = "none"
    /\ \E args \in ConstructionArgs, kwargs \in ConstructionKwargs :
          LET r == __init__(klass, args, kwargs)
          IN /\ request' = Request("__init__", args, kwargs, r)
             /\ built' = IF r.exc = "none"
                         THEN [constructed |-> TRUE,
                               parameters |-> r.parameters,
                               wrapped |-> FALSE]
                         ELSE NotBuilt
    /\ UNCHANGED klass
    /\ UNCHANGED cacheVars

\* instance(f): Decorator.__call__ with Decorator.get_wrapped_object
Wrap ==
    /\ built.constructed
    /\ ~built.wrapped
    /\ built' = [built EXCEPT !.wrapped = TRUE]
    /\ request' = Request("__call__", << >>, EmptyDict, Bound(EmptyDict))
    /\ UNCHANGED klass
    /\ UNCHANGED cacheVars

\* a call of the wrapped target: the parameters are not looked at again
CallWrapped ==
    /\ built.wrapped
    /\ request.op = "__call__"
    /\ request' = Request("call", << >>, EmptyDict, Bound(EmptyDict))
    /\ UNCHANGED <<klass, built>>
    /\ UNCHANGED cacheVars

NextParams ==
    \/ Validate
    \/ GetParameters
    \/ Construct
    \/ Wrap
    \/ CallWrapped

SpecParams == InitParams /\ [][NextParams]_vars

---------------------------------------------------------------------------
(* Properties of the parameter declaration, checked under SpecParams *)

\* the number of leading stars of a parameter string
RECURSIVE Stars(_)
Stars(q) == IF Len(q) > 0 /\ q[1] = "*" THEN 1 + Stars(Tail(q)) ELSE 0
\* the parameter string without its leading stars
Bare(q) == SubSeq(q, Stars(q) + 1, Len(q))
IsIdentifier(n) ==
    /\ Len(n) > 0
    /\ \A i \in 1..Len(n) : n[i] \in WordChars
    /\ n[1] # "1"
IsNamed(q) == Stars(q) = 0
IsCollector(q) == Stars(q) > 0

\* the ways a declaration can be wrong
RepeatedName(P) ==
    \E i, j \in 1..Len(P) :
        i # j /\ replace_star(P[i]) = replace_star(P[j])
Malformed(P) ==
    \E i \in 1..Len(P) : Stars(P[i]) > 2 \/ ~IsIdentifier(Bare(P[i]))
CollectorBeforeNamed(P) ==
    \E i, j \in 1..Len(P) : i < j /\ IsCollector(P[i]) /\ IsNamed(P[j])
CollectorsOutOfOrder(P) ==
    \E i, j \in 1..Len(P) :
        /\ i < j
        /\ IsCollector(P[i]) /\ IsCollector(P[j])
        /\ ~(Stars(P[i]) = 1 /\ Stars(P[j]) = 2)
BadDefaultKey(P, D) ==
    \E key \in DOMAIN D :
        \/ \A i \in 1..Len(P) : P[i] # key
        \/ IsCollector(key)
DefaultBeforeRequired(P, D) ==
    \E i, j \in 1..Len(P) :
        /\ i < j
        /\ IsNamed(P[i]) /\ P[i] \in DOMAIN D
        /\ IsNamed(P[j]) /\ P[j] \notin DOMAIN D

\* unique well-formed identifiers, ordered as required names, optional
\* names, at most one *args, at most one **kwargs; DEFAULTS keys declared
\* and not collectors
ValidDeclaration(k) ==
    LET P == k.PARAMETERS
        D == k.DEFAULTS
        kind(i) == IF IsCollector(P[i]) THEN 2 + Stars(P[i])
                   ELSE IF P[i] \in DOMAIN D THEN 2 ELSE 1
    IN /\ \A i, j \in 1..Len(P) : i # j => Bare(P[i]) # Bare(P[j])
       /\ \A i \in 1..Len(P) : Stars(P[i]) <= 2 /\ IsIdentifier(Bare(P[i]))
       /\ \A i, j \in 1..Len(P) : i < j => kind(i) <= kind(j)
       /\ \A i, j \in 1..Len(P) : (i # j /\ IsCollector(P[i])) => kind(i) # kind(j)
       /\ \A key \in DOMAIN D :
             IsNamed(key) /\ \E i \in 1..Len(P) : P[i] = key

Validated == request.op = "validate_parameter_config"

\* C15: validate_parameter_config raises nothing for every declaration
\* with unique well-formed identifiers ordered as required names, optional
\* names, at most one *args collector, at most one **kwargs collector,
\* whose DEFAULTS keys are declared non-collector names.
C15_ValidDeclarationAccepted ==
    (Validated /\ ValidDeclaration(klass)) => request.exc = "none"

\* a declaration with an optional name and both collectors is accepted
C15_Witness ==
    /\ Validated
    /\ ValidDeclaration(klass)
    /\ request.exc = "none"
    /\ Len(klass.PARAMETERS) >= 3
    /\ \E i \in 1..Len(klass.PARAMETERS) : Stars(klass.PARAMETERS[i]) = 1
    /\ \E i \in 1..Len(klass.PARAMETERS) : Stars(klass.PARAMETERS[i]) = 2
    /\ DOMAIN klass.DEFAULTS # {}

\* C16: validate_parameter_config raises SyntaxError for every declaration
\* with a repeated name (also between a named parameter and a collector),
\* a malformed identifier, a collector before a named parameter, **kwargs
\* before *args or two collectors of one kind, a DEFAULTS key that is not
\* declared or names a collector, or a parameter with a default before a
\* parameter without one.
C16_InvalidDeclarationRejected ==
    Validated =>
        LET P == klass.PARAMETERS
            D == klass.DEFAULTS
        IN /\ RepeatedName(P) => request.exc = "SyntaxError"
           /\ Malformed(P) => request.exc = "SyntaxError"
           /\ CollectorBeforeNamed(P) => request.exc = "SyntaxError"
           /\ CollectorsOutOfOrder(P) => request.exc = "SyntaxError"
           /\ BadDefaultKey(P, D) => request.exc = "SyntaxError"
           /\ DefaultBeforeRequired(P, D) => request.exc = "SyntaxError"

\* the named (non-collector) parameters of the declaration, in order
Named == SelectSeq(klass.PARAMETERS, IsNamed)
\* the name of the *args collector and of the **kwargs collector (<< >>: none)
ArgsCollector ==
    LET c == SelectSeq(klass.PARAMETERS, LAMBDA q : Stars(q) = 1)
    IN IF Len(c) > 0 THEN Bare(c[1]) ELSE << >>
KwargsCollector ==
    LET c == SelectSeq(klass.PARAMETERS, LAMBDA q : Stars(q) = 2)
    IN IF Len(c) > 0 THEN Bare(c[1]) ELSE << >>

Resolved == request.op = "get_parameters"

\* the value the i-th named parameter is to get: <<value>>, or << >>
Given(i) ==
    IF i <= Len(request.args) THEN <<request.args[i]>>
    ELSE IF Named[i] \in DOMAIN request.kwargs
         THEN <<request.kwargs[Named[i]]>>
    ELSE IF Named[i] \in DOMAIN klass.DEFAULTS
         THEN <<klass.DEFAULTS[Named[i]]>>
    ELSE << >>

\* positional arguments beyond the named parameters
Overflow == SubSeq(request.args, Len(Named) + 1, Len(request.args))
\* keyword arguments that name no named parameter
Unexpected ==
    [n \in (DOMAIN request.kwargs) \ Elements(Named) |-> request.kwargs[n]]
\* a named parameter given both by position and by keyword
GivenTwice ==
    \E i \in 1..Len(Named) :
        i <= Len(request.args) /\ Named[i] \in DOMAIN request.kwargs

\* the arguments match the declaration
Matches ==
    /\ \A i \in 1..Len(Named) : Given(i) # << >>
    /\ ~GivenTwice
    /\ Overflow # << >> => ArgsCollector # << >>
    /\ Unexpected # EmptyDict => KwargsCollector # << >>

\* C17: get_parameters gives every named parameter the positional argument
\* at its index if there is one, else the keyword argument of its name,
\* else its DEFAULTS value; it raises TypeError when a parameter without a
\* default gets neither; it succeeds for every argument list that matches
\* the declaration, and binds no name that is not declared.
C17_BindsEachParameter ==
    Resolved =>
        /\ (\E i \in 1..Len(Named) : Given(i) = << >>) =>
              request.exc = "TypeError"
        /\ Matches => request.exc = "none"
        /\ request.exc = "none" =>
              /\ \A i \in 1..Len(Named) :
                    /\ Named[i] \in DOMAIN request.parameters
                    /\ request.parameters[Named[i]] = Given(i)[1]
              /\ DOMAIN request.parameters \subseteq
                    Elements(Named) \cup {ArgsCollector, KwargsCollector}

\* one parameter by position, one by keyword, one by default
C17_Witness ==
    /\ Resolved
    /\ request.exc = "none"
    /\ Len(Named) = 3
    /\ Len(request.args) = 1
    /\ Named[2] \in DOMAIN request.kwargs
    /\ Named[2] \in DOMAIN klass.DEFAULTS
    /\ Named[3] \notin DOMAIN request.kwargs
    /\ request.parameters[Named[1]] = request.args[1]
    /\ request.parameters[Named[2]] = KeywordValue
    /\ request.parameters[Named[3]] = DefaultValue

\* C18: when a call gives a named parameter both a positional argument and
\* a keyword argument of its name, get_parameters raises and binds
\* nothing, also when the declaration has a **kwargs collector.
C18_GivenTwiceRaises ==
    (Resolved /\ GivenTwice) =>
        /\ request.exc \in {"SyntaxError", "TypeError"}
        /\ request.parameters = EmptyDict

C18_Witness ==
    /\ Resolved
    /\ GivenTwice
    /\ KwargsCollector # << >>
    /\ \A i \in 1..Len(Named) : Given(i) # << >>
    /\ request.exc = "SyntaxError"

\* C19 as claimed: positional arguments beyond the named parameters are
\* bound in order to the *args collector if one is declared and raise
\* TypeError otherwise; keyword arguments naming no declared parameter are
\* bound to the **kwargs collector if one is declared and raise TypeError
\* otherwise.
C19_OverflowBoundOrTypeError ==
    Resolved =>
        /\ (Overflow # << >> /\ ArgsCollector = << >>) =>
              request.exc = "TypeError"
        /\ (Overflow # << >> /\ request.exc = "none") =>
              request.parameters[ArgsCollector] = Overflow
        /\ (Unexpected # EmptyDict /\ KwargsCollector = << >>) =>
              request.exc = "TypeError"
        /\ (Unexpected # EmptyDict /\ request.exc = "none") =>
              request.parameters[KwargsCollector] = Unexpected

\* the call fails before the keywords left over are looked at
FailsEarlier ==
    \/ Overflow # << >> /\ ArgsCollector = << >>
    \/ \E i \in 1..Len(Named) : Given(i) = << >>

\* C19 as amended: as claimed, except that unexpected keywords without a
\* **kwargs collector raise SyntaxError, not TypeError, when the call also
\* gives a named parameter twice and has no other fault (the repetition is
\* checked before the missing collector); without a repetition they raise
\* TypeError.  Collectors that receive nothing are not bound at all.
C19_OverflowUnlessGivenTwice ==
    Resolved =>
        /\ (Overflow # << >> /\ ArgsCollector = << >>) =>
              request.exc = "TypeError"
        /\ (Overflow # << >> /\ request.exc = "none") =>
              request.parameters[ArgsCollector] = Overflow
        /\ (Unexpected # EmptyDict /\ KwargsCollector = << >>) =>
              request.exc = (IF GivenTwice /\ ~FailsEarlier
                             THEN "SyntaxError" ELSE "TypeError")
        /\ (Unexpected # EmptyDict /\ request.exc = "none") =>
              request.parameters[KwargsCollector] = Unexpected
        /\ (Matches /\ Overflow = << >>) =>
              ArgsCollector \notin DOMAIN request.parameters
        /\ (Matches /\ Unexpected = EmptyDict) =>
              KwargsCollector \notin DOMAIN request.parameters

\* two positional arguments collected in order, an unexpected keyword
\* collected too
C19_Witness ==
    /\ Resolved
    /\ request.exc = "none"
    /\ Len(Overflow) = 2
    /\ Overflow[1] # Overflow[2]
    /\ request.parameters[ArgsCollector] = Overflow
    /\ Unexpected # EmptyDict
    /\ request.parameters[KwargsCollector] = Unexpected

\* C20: constructing a decorator validates the declaration and binds the
\* construction arguments before any target is wrapped: construction
\* raises for an invalid declaration and for arguments that do not match
\* it and then leaves no instance; only a constructed instance, whose
\* declaration is valid and whose named parameters are all bound, wraps a
\* target; wrapping and calls of the wrapped target raise no such error.
C20_ConstructionValidates ==
    /\ request.op = "__init__" =>
          /\ ~ValidDeclaration(klass) => request.exc = "SyntaxError"
          /\ (ValidDeclaration(klass) /\ ~Matches) =>
                request.exc \in {"TypeError", "SyntaxError"}
          /\ (ValidDeclaration(klass) /\ Matches) => request.exc = "none"
          /\ built.constructed = (request.exc = "none")
    /\ built.constructed =>
          /\ ValidDeclaration(klass)
          /\ \A i \in 1..Len(Named) : Named[i] \in DOMAIN built.parameters
    /\ built.wrapped => built.constructed
    /\ request.op \in {"__call__", "call"} =>
          /\ built.wrapped
          /\ request.exc = "none"

---------------------------------------------------------------------------
(* decorators.py: Decorator.to_decorator, Decorator.__call__ and           *)
(* HybridDecorator.  A Python object handed to the entry point is a record *)
(* with its kind (function, class, int, a decorator instance), its name,   *)
(* the name of its first declared parameter ("" when it has none) and, for *)
(* an int, its value.                                                      *)

PyObject(kind, name, first, value) ==
    [kind |-> kind, name |-> name, first |-> first, value |-> value]
FunctionObject(name, first) == PyObject("function", name, first, 0)
ClassObject(name) == PyObject("class", name, "", 0)
IntObject(n) == PyObject("int", "", "", n)
InstanceOf(k) == PyObject("instance", k.cls, "", 0)
NoObject == PyObject("none", "", "", 0)

\* callable(x) and inspect.isclass(x)
callable(x) == x.kind \in {"function", "class", "instance"}
isclass(x) == x.kind = "class"

\* the decorator classes the entry point is made from: Decorator, a
\* subclass declaring two parameters with defaults, HybridDecorator, and a
\* HybridDecorator subclass that overrides get_wrapped_object (calling
\* super); overrides counts the classes before HybridDecorator in the MRO
\* that define get_wrapped_object
EntryClasses ==
    { [cls |-> "Decorator", hybrid |-> FALSE, overrides |-> 0,
       PARAMETERS |-> << >>, DEFAULTS |-> EmptyDict],
      [cls |-> "D", hybrid |-> FALSE, overrides |-> 0,
       PARAMETERS |-> << <<"a">>, <<"b">> >>,
       DEFAULTS |-> [x \in { <<"a">>, <<"b">> } |-> IntObject(DefaultValue)]],
      [cls |-> "HybridDecorator", hybrid |-> TRUE, overrides |-> 0,
       PARAMETERS |-> << >>, DEFAULTS |-> EmptyDict],
      [cls |-> "Foo", hybrid |-> TRUE, overrides |-> 1,
       PARAMETERS |-> << >>, DEFAULTS |-> EmptyDict] }

\* where the decorating statement stands: at module level, in the body of a
\* function, or in a class body
Sites == {"module", "function", "class"}

\* The frames of inspect.stack() below the decorator's own frames, innermost
\* first, each given by the keyword its current source line starts with:
\* the frame holding the decorated def, then the frame that runs the
\* enclosing class statement or called the enclosing function.
site_frames(site) ==
    IF site = "class" THEN <<"def", "class">>
    ELSE IF site = "function" THEN <<"def", "call">>
    ELSE <<"def">>

\* inspect.stack() inside __is_in_class: __is_in_class, the
\* get_wrapped_object of HybridDecorator and of each overriding subclass,
\* __call__, the entry point's wrapper when it made the call, then the site
stack(k, direct, site) ==
    <<"return", "return">>
    \o [i \in 1..k.overrides |-> "return"]
    \o <<"return">>
    \o (IF direct THEN <<"return">> ELSE << >>)
    \o site_frames(site)

\* HybridDecorator.__is_in_class: frames[4 + diff] starts with 'class '
__is_in_class(k, frames) ==
    LET frame_depth == 4 + k.overrides
    IN IF Len(frames) > frame_depth
       THEN frames[frame_depth + 1] = "class"
       ELSE FALSE

\* functools.wraps(wrapped)(obj): update_wrapper copies __doc__ and updates
\* obj.__dict__, which a class does not allow
wraps(wrapped, obj) ==
    IF isclass(obj) THEN [exc |-> "AttributeError", returned |-> NoObject]
    ELSE [exc |-> "none", returned |-> obj]

Outcome(exc, returned, in_class, parameters) ==
    [exc |-> exc, returned |-> returned, in_class |-> in_class,
     parameters |-> parameters]

\* Decorator.__call__ of an instance of k with HybridDecorator's and
\* Decorator's get_wrapped_object (which returns to_wrap)
__call__(k, parameters, f, frames) ==
    LET in_class == IF k.hybrid THEN __is_in_class(k, frames) ELSE FALSE
        g == wraps(f, f)
    IN Outcome(g.exc, g.returned, in_class, parameters)

\* the wrapper returned by to_decorator, called at a site
to_decorator(k, args, kwargs, site) ==
    IF Len(args) > 0 /\ (callable(args[1]) \/ isclass(args[1]))
    THEN LET made == __init__(k, << >>, EmptyDict)
         IN IF made.exc # "none"
            THEN Outcome(made.exc, NoObject, FALSE, EmptyDict)
            ELSE __call__(k, made.parameters, args[1], stack(k, TRUE, site))
    ELSE LET made == __init__(k, args, kwargs)
         IN IF made.exc # "none"
            THEN Outcome(made.exc, NoObject, FALSE, EmptyDict)
            ELSE Outcome("none", InstanceOf(k), FALSE, made.parameters)

---------------------------------------------------------------------------
(* The operations on an entry point d = klass.to_decorator() *)

EntryFunctions ==
    { FunctionObject("foo", ""), FunctionObject("foo", "bar"),
      FunctionObject("foo", "self"), FunctionObject("foo", "cls") }
EntryTargets == EntryFunctions \cup {ClassObject("F")}
EntryValues == {IntObject(v) : v \in PositionalValues}
\* what the entry point is called with: nothing, one object, or one object
\* followed by further positional arguments
EntryArgs ==
    { << >> }
    \cup { <<x>> : x \in EntryTargets \cup EntryValues }
    \cup { <<x, IntObject(2)>> : x \in EntryTargets \cup EntryValues }
\* the keyword is_method, and True
is_method == <<"i", "s", "_", "m", "e", "t", "h", "o", "d">>
True == PyObject("bool", "", "", 1)
EntryKwargs ==
    { EmptyDict,
      [x \in { <<"a">> } |-> IntObject(KeywordValue)],
      [x \in { is_method } |-> True] }

EntryRequest(op, site, args, kwargs, target, r) ==
    [op |-> op, site |-> site, args |-> args, kwargs |-> kwargs,
     target |-> target, exc |-> r.exc, returned |-> r.returned,
     in_class |-> r.in_class, parameters |-> r.parameters]

InitEntry ==
    /\ klass \in EntryClasses
    /\ request = NoRequest
    /\ built = NotBuilt
    /\ dec = NewDecorator("CacheDecorator", FALSE)
    /\ attrs = [o \in Objects |-> EmptyDict]
    /\ init_counter = 0
    /\ counter = [w \in Owners |-> 0]
    /\ calls = [w \in Owners |-> 0]
    /\ hist = << >>
    /\ keyIn = NoKeys
    /\ keyOut = NoKeys
    /\ fetched = Nothing
    /\ callers = NoCallers

\* d(*args, **kwargs) written at a site
EntryCall ==
    /\ request.op = "none"
    /\ \E site \in Sites, args \in EntryArgs, kwargs \in EntryKwargs :
          LET r == to_decorator(klass, args, kwargs, site)
          IN /\ request' = EntryRequest("entry", site, args, kwargs,
                                        NoObject, r)
             /\ built' = IF r.returned.kind = "instance"
                         THEN [constructed |-> TRUE,
                               parameters |-> r.parameters,
                               wrapped |-> FALSE]
                         ELSE NotBuilt
    /\ UNCHANGED klass
    /\ UNCHANGED cacheVars

\* the instance d(...) returned is applied to a target: d(...)(f)
EntryApply ==
    /\ request.op = "entry"
    /\ built.constructed
    /\ ~built.wrapped
    /\ \E f \in EntryTargets :
          LET r == __call__(klass, built.parameters, f,
                            stack(klass, FALSE, request.site))
          IN request' = EntryRequest("apply", request.site, request.args,
                                     request.kwargs, f, r)
    /\ built' = [built EXCEPT !.wrapped = TRUE]
    /\ UNCHANGED klass
    /\ UNCHANGED cacheVars

NextEntry ==
    \/ EntryCall
    \/ EntryApply

SpecEntry == InitEntry /\ [][NextEntry]_vars

---------------------------------------------------------------------------
(* Properties of the entry point, checked under SpecEntry *)

\* the entry point was called with nothing: d()
EmptyConfiguration == request.args = << >> /\ request.kwargs = EmptyDict
\* the entry point was called with one callable and nothing else: d(f)
SoleCallable ==
    /\ Len(request.args) = 1
    /\ request.kwargs = EmptyDict
    /\ callable(request.args[1])

\* C21: applied directly to a target, d(f), the entry point gives the same
\* result (the object returned or the exception raised) as applied after
\* an empty configuration call, d()(f); for the base Decorator both return
\* the target object itself, for functions and for classes.
C21_DirectSameAsEmptyConfiguration ==
    /\ (request.op = "apply" /\ EmptyConfiguration) =>
          LET direct == to_decorator(klass, <<request.target>>, EmptyDict,
                                     request.site)
          IN /\ direct.exc = request.exc
             /\ direct.returned = request.returned
    /\ (klass.cls = "Decorator" /\ request.op = "apply"
            /\ EmptyConfiguration) =>
          /\ request.exc = "none"
          /\ request.returned = request.target
    /\ (klass.cls = "Decorator" /\ request.op = "entry" /\ SoleCallable) =>
          /\ request.exc = "none"
          /\ request.returned = request.args[1]

\* C22: the entry point takes the direct-wrap path only when it is called
\* with a sole argument that is callable or a class; any other call is
\* configuration: it raises what binding its arguments as decorator
\* parameters raises, or returns an instance configured with the bound
\* parameters.
C22_DirectOnlyForSoleCallable ==
    (request.op = "entry" /\ ~SoleCallable) =>
        LET made == __init__(klass, request.args, request.kwargs)
        IN /\ request.exc = made.exc
           /\ made.exc = "none" =>
                 /\ request.returned = InstanceOf(klass)
                 /\ request.parameters = made.parameters
                 /\ built.constructed
                 /\ built.parameters = made.parameters

\* the function a HybridDecorator has just wrapped, << >> when the last
\* operation wrapped no function
WrappedFunction ==
    IF ~klass.hybrid THEN << >>
    ELSE IF request.op = "apply" /\ request.target.kind = "function"
    THEN <<request.target>>
    ELSE IF /\ request.op = "entry"
            /\ Len(request.args) > 0
            /\ request.args[1].kind = "function"
    THEN <<request.args[1]>>
    ELSE << >>

\* C23: a HybridDecorator classifies the function it wraps by the name of
\* its first declared parameter: in_class is True for self or cls, False
\* for no parameter or another name; a configuration call giving is_method
\* is accepted and in_class then equals is_method.
C23_ClassifiedByFirstParameter ==
    /\ (WrappedFunction # << >> /\ is_method \notin DOMAIN request.kwargs) =>
          request.in_class = (WrappedFunction[1].first \in {"self", "cls"})
    /\ (klass.hybrid /\ request.op = "entry" /\ ~SoleCallable
            /\ request.args = << >>
            /\ DOMAIN request.kwargs = {is_method}) =>
          request.exc = "none"
    /\ (klass.hybrid /\ request.op = "apply"
            /\ is_method \in DOMAIN request.kwargs) =>
          request.in_class = (request.kwargs[is_method] = True)

---------------------------------------------------------------------------
(* Programs whose wrapped callable can raise, under the decorators of      *)
(* cache.py and under Cache / Memoize of decorators.py                     *)

\* whether dec is a Cache / Memoize instance of decorators.py
IsLegacy == "parameters" \in DOMAIN dec

InitRaise == InitCache \/ InitLegacy

\* @decorator applied to a callable that can raise (cache.py)
RaiseDecorate ==
    /\ ~IsLegacy
    /\ dec.wrapped = "none"
    /\ \E t \in RaisingTargets : dec' = get_wrapped_object(dec, t)
    /\ UNCHANGED <<attrs, counter, calls, init_counter, hist, keyIn, keyOut,
                   fetched>>
    /\ UNCHANGED paramVars
    /\ UNCHANGED callers

RaiseFuncCall == ~IsLegacy /\ FuncCall
RaiseFuncPop == ~IsLegacy /\ FuncPop
RaiseMethodCall == ~IsLegacy /\ MethodCall
RaiseMethodPop == ~IsLegacy /\ MethodPop
RaisePropGet == ~IsLegacy /\ PropGet
RaisePropDelete == ~IsLegacy /\ PropDelete

\* @decorator applied to a callable that can raise (decorators.py)
RaiseLegacyDecorate ==
    /\ IsLegacy
    /\ dec.wrapped = "none"
    /\ \E t \in RaisingTargets :
          /\ dec' = legacy_get_wrapped_object(dec, t)
          /\ attrs' = init_cache(attrs, dec', "module", FALSE)
    /\ UNCHANGED <<counter, calls, init_counter, hist, keyIn, keyOut, fetched>>
    /\ UNCHANGED paramVars
    /\ UNCHANGED callers

RaiseLegacyCall == IsLegacy /\ LegacyCall

NextRaise ==
    \/ RaiseDecorate
    \/ RaiseFuncCall
    \/ RaiseFuncPop
    \/ RaiseMethodCall
    \/ RaiseMethodPop
    \/ RaisePropGet
    \/ RaisePropDelete
    \/ RaiseLegacyDecorate
    \/ RaiseLegacyCall

SpecRaise == InitRaise /\ [][NextRaise]_vars

\* the content of the store of obj under Cache / Memoize of decorators.py,
\* a store not yet initialised holding the default cache value
LegacyStoreIn(a, obj) ==
    IF dec.in_class
    THEN IF dec.cache_attr \in DOMAIN a[obj]
         THEN a[obj][dec.cache_attr]
         ELSE dec.parameters.default_cache_value
    ELSE IF "cache" \in DOMAIN a["decorator"]
         THEN a["decorator"]["cache"]
         ELSE dec.parameters.default_cache_value

\* a cached call: f(...), instance.f(...) or a property read
IsCachedCall(e) == e.op \in {"call", "get"}
\* the exception the wrapped callable raises when called now ("none": it
\* returns)
BodyOutcome(e) == invoke(e.obj, e.args).exc

\* C24: in a cached call (free function or method, single-value or
\* memoized), when the wrapped callable is invoked and raises, the caller
\* receives that same exception; the caller of a cached call never
\* receives NotInCache.
C24_CallableExceptionPropagates ==
    [][ (hist' # hist /\ IsCachedCall(LastOf(hist'))) =>
          LET e == LastOf(hist')
              invoked == calls'[e.obj] = calls[e.obj] + 1
          IN /\ e.exc # NotInCache
             /\ (invoked /\ BodyOutcome(e) # "none") => e.exc = BodyOutcome(e)
             /\ e.exc = "ValueError" => invoked ]_vars

\* a method's memoized call missed, the method raised ValueError and the
\* caller received it
C24_Witness ==
    /\ dec.wrapped = "descriptor"
    /\ dec.cls = "MemoizeDecorator"
    /\ Len(hist) >= 2
    /\ LastOf(hist).op = "call"
    /\ LastOf(hist).exc = "ValueError"
    /\ calls[LastOf(hist).obj] >= 1
    /\ \E k \in 1..(Len(hist) - 1) :
          /\ hist[k].obj = LastOf(hist).obj
          /\ hist[k].op = "call" /\ hist[k].exc = "none"

\* the logged call missed and the wrapped callable raised (a call with
\* recompute=True under decorators.py computes without a miss)
RaisedOnMiss(e) ==
    /\ e.exc \in {"ValueError", "TypeError"}
    /\ IsLegacy => ~Recompute(e)

\* C26: when the wrapped callable raises during a cached call, nothing is
\* stored (under cache.py no attribute of any object changes; under
\* decorators.py the content of every store is as before), and the next
\* call on the same object with the same arguments invokes the wrapped
\* callable again.
C26_NothingStoredOnRaise ==
    [][ (hist' # hist /\ IsCachedCall(LastOf(hist'))) =>
          LET e == LastOf(hist')
              invoked == calls'[e.obj] = calls[e.obj] + 1
              before == On(e.obj)
          IN /\ (invoked /\ BodyOutcome(e) # "none") =>
                   IF IsLegacy
                   THEN \A o \in (IF dec.in_class THEN Instances
                                   ELSE {"module"}) :
                           LegacyStoreIn(attrs', o) = LegacyStoreIn(attrs, o)
                   ELSE attrs' = attrs
             /\ ( /\ Len(before) > 0
                  /\ IsCachedCall(LastOf(before))
                  /\ LastOf(before).args = e.args
                  /\ RaisedOnMiss(LastOf(before)) ) =>
                   invoked ]_vars

\* a free function's call missed and raised with nothing stored, and the
\* next call with the same arguments invoked the function again
C26_Witness ==
    /\ dec.wrapped = "wrapper"
    /\ ~IsLegacy
    /\ Len(hist) >= 2
    /\ hist[1].op = "call" /\ hist[1].exc = "ValueError"
    /\ hist[2].op = "call" /\ hist[2].args = hist[1].args
    /\ calls["module"] = 2
    /\ hist[2].exc = "none"
    /\ Store("module") # << >>

---------------------------------------------------------------------------
(* Two callers of one decorated callable of cache.py.  A cached call is    *)
(* three steps, between which the other caller can run: the lookup         *)
(* (cache.get), the call of the wrapped callable, and the store            *)
(* (cache.set).                                                            *)

\* try: return cache.get(*args, **kwargs): a hit returns, a miss goes on
Lookup(t) ==
    /\ dec.wrapped # "none"
    /\ callers[t].pc = "idle"
    /\ \E obj \in (IF dec.in_class THEN Instances ELSE {"module"}),
          args \in ArgLists(dec.to_wrap.nparams) :
          LET r == cache_get(attrs, TheCache(obj), args, EmptyKwargs)
          IN IF r.exc = "none"
             THEN /\ callers' = [callers EXCEPT
                                   ![t] = Caller("done", obj, args, r.value)]
                  /\ hist' = Append(hist, Entry("hit", obj, args, None, r))
             ELSE /\ callers' = [callers EXCEPT
                                   ![t] = Caller("missed", obj, args, None)]
                  /\ hist' = hist
    /\ UNCHANGED <<dec, attrs, counter, calls, init_counter, keyIn, keyOut,
                   fetched>>
    /\ UNCHANGED paramVars

\* except NotInCache: to_wrap(*args, **kwargs) / self.method(instance, ...)
Compute(t) ==
    /\ callers[t].pc = "missed"
    /\ LET c == callers[t]
           r == invoke(c.obj, c.args)
       IN /\ counter' = r.counter
          /\ calls' = r.calls
          /\ IF r.exc = "none"
             THEN /\ callers' = [callers EXCEPT
                                   ![t] = Caller("computed", c.obj, c.args,
                                                 r.value)]
                  /\ hist' = hist
             ELSE /\ callers' = [callers EXCEPT
                                   ![t] = Caller("done", c.obj, c.args, None)]
                  /\ hist' = Append(hist,
                                    Entry("raise", c.obj, c.args, None, r))
    /\ UNCHANGED <<dec, attrs, init_counter, keyIn, keyOut, fetched>>
    /\ UNCHANGED paramVars

\* return cache.set(value, *args, **kwargs)
StoreResult(t) ==
    /\ callers[t].pc = "computed"
    /\ LET c == callers[t]
           r == cache_set(attrs, TheCache(c.obj), c.value, c.args, EmptyKwargs)
       IN /\ attrs' = r.attrs
          /\ callers' = [callers EXCEPT
                           ![t] = Caller("done", c.obj, c.args, r.value)]
          /\ hist' = Append(hist, Entry("store", c.obj, c.args, c.value, r))
    /\ UNCHANGED <<dec, counter, calls, init_counter, keyIn, keyOut, fetched>>
    /\ UNCHANGED paramVars

NextRace ==
    \/ Decorate
    \/ \E t \in CallerIds : Lookup(t)
    \/ \E t \in CallerIds : Compute(t)
    \/ \E t \in CallerIds : StoreResult(t)

SpecRace == InitCache /\ [][NextRace]_vars

\* the stores logged for obj that wrote the slot of args
StoresOn(obj, args) ==
    SelectSeq(hist, LAMBDA e : /\ e.op = "store"
                               /\ e.obj = obj
                               /\ TheCache(obj).cls = "Memoizing" =>
                                     e.args = args)

\* C25: the lookup, compute, store sequence is not atomic: every caller
\* that observed a miss calls the wrapped callable itself, so two callers
\* that both observed the miss on one owner both call it; the value left
\* in a store is the value computed by the caller whose store ran last.
C25_LookupComputeStoreNotAtomic ==
    /\ \A t, u \in CallerIds :
          ( /\ t # u
            /\ callers[t].pc \in {"computed", "done"}
            /\ callers[u].pc \in {"computed", "done"}
            /\ callers[t].obj = callers[u].obj
            /\ Len(SelectSeq(hist, LAMBDA e : e.op = "hit")) = 0 ) =>
             calls[callers[t].obj] = 2
    /\ \A k \in 1..Len(hist) :
          LET e == hist[k]
              written == StoresOn(e.obj, e.args)
          IN e.op = "store" =>
                /\ Store(e.obj) # << >>
                /\ IF TheCache(e.obj).cls = "Memoizing"
                   THEN Store(e.obj)[1][_get_key(e.args, EmptyKwargs)] =
                           LastOf(written).given
                   ELSE Store(e.obj)[1] = LastOf(written).given

\* both callers missed on one owner with the same arguments, both called
\* the wrapped callable, and the second store replaced the first
C25_Witness ==
    /\ callers[1].pc = "done" /\ callers[2].pc = "done"
    /\ callers[1].obj = callers[2].obj
    /\ callers[1].args = callers[2].args
    /\ Ops(hist) = <<"store", "store">>
    /\ calls[callers[1].obj] = 2
    /\ hist[1].given # hist[2].given
    /\ Store(callers[1].obj) # << >>
    /\ callers[1].value # callers[2].value

---------------------------------------------------------------------------
(* decorators.py: a wrapped callable that calls its own Cache / Memoize    *)
(* wrapper while it runs.  The outer call is two steps: the wrapper up to  *)
(* the call of f (init_cache, get_cache, in_cache: a miss), and from f's   *)
(* return on (to_cache); the calls f makes in between are LegacyCall       *)
(* steps.                                                                  *)

\* wrapper(*args) up to value = f(*args, **kwargs), on a miss
legacy_wrapper_begin(d, obj, args) ==
    LET a1 == IF "cache" \notin DOMAIN attrs["decorator"]
              THEN init_cache(attrs, d, obj, d.in_class \/ Len(args) > 0)
              ELSE attrs
        cache == legacy_get_cache(a1, d, obj)
    IN in_cache(a1, d, cache, args, << >>)

\* wrapper(*args) from the return of f on: to_cache and return value; the
\* cache object got before f ran is the dict the nested calls changed
legacy_wrapper_end(d, obj, args) ==
    LET r == invoke(obj, args)
        st == to_cache(attrs, d, obj, legacy_get_cache(attrs, d, obj), r.value)
    IN IF r.exc # "none"
       THEN Res(r.exc, None, attrs, r.counter, r.calls)
       ELSE IF st.exc # "none"
       THEN Res(st.exc, None, st.attrs, r.counter, r.calls)
       ELSE Res("none", r.value, st.attrs, r.counter, r.calls)

\* f(*args) or instance.f(*args) misses and the body of f starts
NestedBegin ==
    /\ dec.wrapped = "wrapper"
    /\ callers[1].pc = "idle"
    /\ Len(hist) < MaxHistLegacy
    /\ \E obj \in (IF dec.in_class THEN Instances ELSE {"module"}),
          args \in ArgLists(dec.to_wrap.nparams) :
          LET chk == legacy_wrapper_begin(dec, obj, args)
          IN /\ ~chk.result
             /\ attrs' = chk.attrs
             /\ callers' = [callers EXCEPT
                              ![1] = Caller("computing", obj, args, 0)]
    /\ UNCHANGED <<dec, counter, calls, init_counter, hist, keyIn, keyOut,
                   fetched>>
    /\ UNCHANGED paramVars

\* the body of f calls the wrapper: a nested call, counted in value
NestedCall ==
    /\ callers[1].pc = "computing"
    /\ Len(hist) < MaxHistLegacy
    /\ \E obj \in (IF dec.in_class THEN Instances ELSE {"module"}),
          args \in ArgLists(dec.to_wrap.nparams) :
          LET r == legacy_wrapper(dec, obj, args, << >>)
          IN /\ attrs' = r.attrs
             /\ counter' = r.counter
             /\ calls' = r.calls
             /\ hist' = Append(hist, [LegacyEntry(obj, args, << >>, r)
                                         EXCEPT !.op = "nested"])
    /\ callers' = [callers EXCEPT ![1].value = @ + 1]
    /\ UNCHANGED <<dec, init_counter, keyIn, keyOut, fetched>>
    /\ UNCHANGED paramVars

\* f returns and the outer call stores and returns its value
NestedEnd ==
    /\ callers[1].pc = "computing"
    /\ LET c == callers[1]
           r == legacy_wrapper_end(dec, c.obj, c.args)
       IN /\ attrs' = r.attrs
          /\ counter' = r.counter
          /\ calls' = r.calls
          /\ hist' = Append(hist, [LegacyEntry(c.obj, c.args, << >>, r)
                                      EXCEPT !.op = "outer"])
          /\ callers' = [callers EXCEPT
                           ![1] = Caller("done", c.obj, c.args, c.value)]
    /\ UNCHANGED <<dec, init_counter, keyIn, keyOut, fetched>>
    /\ UNCHANGED paramVars

\* a call made while no call is running
PlainCall == callers[1].pc = "idle" /\ LegacyCall

NextNested ==
    \/ LegacyDecorate
    \/ PlainCall
    \/ NestedBegin
    \/ NestedCall
    \/ NestedEnd

SpecNested == InitLegacy /\ [][NextNested]_vars

\* the key Memoize.in_cache computes for a call without keyword arguments
MemoizeKey(args) == repr_tuple(args) \o str_dict(<< >>)

\* C27: under Memoize, a call whose wrapped function called the memoized
\* wrapper again while it ran completes without error, and so does each
\* nested call, hit or miss; the result of each is stored under the key of
\* its own arguments.
C27_NestedCallsComplete ==
    [][ ( /\ dec.cls = "Memoize"
          /\ hist' # hist
          /\ \/ LastOf(hist').op = "nested"
             \/ LastOf(hist').op = "outer" /\ callers[1].value > 0 ) =>
          LET e == LastOf(hist')
              store == legacy_get_cache(attrs', dec, e.obj)
          IN /\ e.exc = "none"
             /\ MemoizeKey(e.args) \in DOMAIN store
             /\ store[MemoizeKey(e.args)] = e.value ]_vars

---------------------------------------------------------------------------
(* One decorator instance of cache.py applied to two free functions: the   *)
(* first, whose counter lives at "module", and a second one, g, whose      *)
(* counter lives at "other" and starts 50 higher, so that the values the   *)
(* two functions compute differ.                                           *)

MaxHistShared == 4      \* operations per behaviour on the two functions

Functions == {"module", "other"}
\* the values the function at w has computed so far
ComputedBy(w, c) ==
    {v \in Int : /\ v > init_counter + (IF w = "other" THEN 50 ELSE 0)
                 /\ v <= c[w]}

InitShared ==
    /\ dec \in {NewDecorator(cls, FALSE) : cls \in DecoratorClasses}
    /\ attrs = [o \in Objects |-> EmptyDict]
    /\ init_counter \in InitCounters
    /\ counter = [w \in Owners \cup Functions |->
                     IF w = "other" THEN init_counter + 50 ELSE init_counter]
    /\ calls = [w \in Owners \cup Functions |-> 0]
    /\ hist = << >>
    /\ keyIn = NoKeys
    /\ keyOut = NoKeys
    /\ fetched = Nothing
    /\ callers = NoCallers
    /\ klass = NoDeclaration
    /\ request = NoRequest
    /\ built = NotBuilt

\* F = d(f): the instance applied to a first free function
SharedDecorate ==
    /\ dec.wrapped = "none"
    /\ \E t \in Targets :
          /\ ~t.in_class_body
          /\ dec' = get_wrapped_object(dec, t)
    /\ UNCHANGED <<attrs, counter, calls, init_counter, hist, keyIn, keyOut,
                   fetched>>
    /\ UNCHANGED paramVars
    /\ UNCHANGED callers

\* G = d(g): the same instance applied to a second free function with the
\* same parameters
SharedDecorateSecond ==
    /\ dec.wrapped = "wrapper"
    /\ dec.to_wrap.name # "g"
    /\ dec' = get_wrapped_object(dec, Target("g", FALSE, dec.to_wrap.nparams,
                                             "never"))
    /\ UNCHANGED <<attrs, counter, calls, init_counter, hist, keyIn, keyOut,
                   fetched>>
    /\ UNCHANGED paramVars
    /\ UNCHANGED callers

\* the wrapper built for the function at w: each application of the
\* instance builds a wrapper around its own to_wrap, all reading self.cache
wrapper_of(w, args, kwargs) ==
    LET got == cache_get(attrs, dec.cache, args, kwargs)
    IN IF got.exc = "none"
       THEN Res("none", got.value, attrs, counter, calls)
       ELSE LET r == invoke(w, args)
            IN IF r.exc # "none" THEN r
               ELSE LET st == cache_set(attrs, dec.cache, r.value, args, kwargs)
                    IN Res(st.exc, st.value, st.attrs, r.counter, r.calls)

\* the functions decorated so far
Decorated == IF dec.to_wrap.name = "g" THEN Functions ELSE {"module"}

\* F(*args) or G(*args)
SharedCall ==
    /\ dec.wrapped = "wrapper"
    /\ Len(hist) < MaxHistShared
    /\ \E w \in Decorated, args \in ArgLists(dec.to_wrap.nparams) :
          Apply("call", w, args, None, wrapper_of(w, args, EmptyKwargs))
    /\ UNCHANGED fetched

\* F.pop(*args) or G.pop(*args): wrapper.pop = self.pop
SharedPop ==
    /\ dec.wrapped = "wrapper"
    /\ Len(hist) < MaxHistShared
    /\ \E w \in Decorated, args \in ArgLists(dec.to_wrap.nparams) :
          Apply("pop", w, args, None, decorator_pop(args, EmptyKwargs))
    /\ UNCHANGED fetched

NextShared ==
    \/ SharedDecorate
    \/ SharedDecorateSecond
    \/ SharedCall
    \/ SharedPop

SpecShared == InitShared /\ [][NextShared]_vars

\* C28: each decorated free function has its own cache: with one decorator
\* instance applied to two free functions, a call of one returns only
\* values that function computed, never a value cached by the other, and
\* a pop on one removes (and returns) only a value that function computed.
C28_OwnCachePerFunction ==
    [][ hist' # hist =>
          LET e == LastOf(hist')
          IN e.exc = "none" => e.value \in ComputedBy(e.obj, counter') ]_vars

---------------------------------------------------------------------------
(* Assignment to and deletion of a cached method's attribute (cache.py)    *)

\* instance.f = value on a cached method
MethodSet ==
    /\ IsMethod
    /\ Len(hist) < Budget
    /\ \E i \in Instances, v \in PushedValues :
          Apply("set", i, << >>, v, descriptor_set(dec.descriptor, i, v))
    /\ UNCHANGED fetched

\* del instance.f on a cached method
MethodDelete ==
    /\ IsMethod
    /\ Len(hist) < Budget
    /\ \E i \in Instances :
          Apply("delete", i, << >>, None, descriptor_delete(dec.descriptor, i))
    /\ UNCHANGED fetched

NextReadOnly ==
    \/ Decorate
    \/ MethodCall
    \/ MethodPush
    \/ MethodSet
    \/ MethodDelete

SpecReadOnly == InitCache /\ [][NextReadOnly]_vars

\* C29: on a cached method not in property mode, assigning to the
\* decorated attribute of an instance and deleting it raise AttributeError
\* and change nothing: the instance's store (and every other attribute of
\* every object) is as before, a cached value stays cached and an empty
\* cache stays empty.
C29_MethodAttributeReadOnly ==
    [][ (IsMethod /\ hist' # hist
            /\ LastOf(hist').op \in {"set", "delete"}) =>
          LET e == LastOf(hist')
          IN /\ e.exc = "AttributeError"
             /\ attrs' = attrs
             /\ StoreIn(attrs', e.obj) = Store(e.obj)
             /\ calls' = calls ]_vars

\* a zero-parameter cached method's value stayed cached through a refused
\* deletion and a refused assignment, and another instance's cache stayed
\* empty through a refused deletion
C29_Witness ==
    /\ IsMethod
    /\ Len(hist) = 4
    /\ hist[1].op = "call" /\ hist[1].exc = "none"
    /\ hist[2].op = "delete" /\ hist[2].obj = hist[1].obj
    /\ hist[2].exc = "AttributeError"
    /\ hist[3].op = "set" /\ hist[3].obj = hist[1].obj
    /\ hist[3].exc = "AttributeError"
    /\ hist[4].op = "delete" /\ hist[4].obj # hist[1].obj
    /\ hist[4].exc = "AttributeError"
    /\ Store(hist[1].obj) # << >>
    /\ Store(hist[4].obj) = << >>

---------------------------------------------------------------------------
(* lazy.py: LazyDecorator and LazyWrapper.  A lazy object is one of        *)
(* Instances; attrs[l] is its __dict__ (DOMAIN {} before it is created).   *)
(* The value the wrapped function computes is an integer (for a str, its   *)
(* length); the computed object is that value with its own __dict__.       *)

MaxHistLazy == 4        \* operations per behaviour on the lazy objects

\* the possible types a LazyDecorator is made for
LazyTypes == {"int", "str"}
\* special methods tried on a lazy object, and hasattr(t, name)
SpecialMethods == {"__neg__", "__len__"}
hasattr(t, name) ==
    \/ t = "int" /\ name = "__neg__"
    \/ t = "str" /\ name = "__len__"
\* LazyWrapperMeta._make_proxy_methods: the names proxied for the types
_make_proxy_methods(types) ==
    {name \in SpecialMethods : \E t \in types : hasattr(t, name)}

\* attribute names read and assigned: one lazy, one not
AttributeNames == {"_lazy_note", "foo"}
\* name.startswith('_lazy_')
startswith_lazy(name) == name = "_lazy_note"

\* the computed object: its value and its __dict__; None before
PyValue(value, dict) == [value |-> value, dict |-> dict]
NoneValue == PyValue(None, EmptyDict)

\* LazyDecorator.__init__
LazyDecorator(types) ==
    [cls |-> "LazyDecorator", types |-> types, wrapped |-> "none",
     to_wrap |-> NoTarget]

\* the functions wrapped: free functions that return or can raise
LazyTargets == {t \in Targets \cup RaisingTargets : ~t.in_class_body}

\* LazyWrapper.__init__(f, args, kwargs)
LazyWrapper(f, args, kwargs) ==
    [_lazy_func |-> f, _lazy_args |-> args, _lazy_kwargs |-> kwargs,
     _lazy_value |-> NoneValue]

lazy_compute_every_time(l) ==
    LET r == invoke(l, attrs[l]._lazy_args)
    IN IF r.exc # "none" THEN r
       ELSE Res("none", None,
                [attrs EXCEPT ![l] =
                    Put(Put(@, "_lazy_value", PyValue(r.value, EmptyDict)),
                        "_lazy_computed", TRUE)],
                r.counter, r.calls)

\* self._lazy_compute(): LazyWrapper._lazy_compute, or the noop lambda it
\* put in its place on the instance
_lazy_compute(l) ==
    IF "_lazy_compute" \in DOMAIN attrs[l]
    THEN Res("none", None, attrs, counter, calls)
    ELSE LET r == invoke(l, attrs[l]._lazy_args)
         IN IF r.exc # "none" THEN r
            ELSE Res("none", None,
                     [attrs EXCEPT ![l] =
                         Put(Put(Put(@, "_lazy_value",
                                     PyValue(r.value, EmptyDict)),
                                 "_lazy_computed", TRUE),
                             "_lazy_compute", "lambda")],
                     r.counter, r.calls)

\* LazyWrapper.__getattribute__(name)
lazy_getattribute(l, name) ==
    IF startswith_lazy(name)
    THEN IF name \in DOMAIN attrs[l]
         THEN Res("none", attrs[l][name], attrs, counter, calls)
         ELSE Res("AttributeError", None, attrs, counter, calls)
    ELSE LET c == _lazy_compute(l)
         IN IF c.exc # "none" THEN c
            ELSE LET v == c.attrs[l]._lazy_value
                 IN IF name \in DOMAIN v.dict
                    THEN Res("none", v.dict[name], c.attrs, c.counter, c.calls)
                    ELSE Res("AttributeError", None, c.attrs, c.counter,
                             c.calls)

\* LazyWrapper.__setattr__(name, val)
lazy_setattr(l, name, val) ==
    IF startswith_lazy(name)
    THEN Res("none", None, [attrs EXCEPT ![l] = Put(@, name, val)],
             counter, calls)
    ELSE LET c == _lazy_compute(l)
         IN IF c.exc # "none" THEN c
            ELSE LET v == c.attrs[l]._lazy_value
                 IN Res("none", None,
                        [c.attrs EXCEPT ![l] =
                            Put(@, "_lazy_value",
                                PyValue(v.value, Put(v.dict, name, val)))],
                        c.counter, c.calls)

\* getattr(self._lazy_value, name)() for the special methods
special_method(name, v) == IF name = "__neg__" THEN 0 - v.value ELSE v.value

\* a special method used on a lazy object: the proxy method made by
\* _make_proxy_method when the class has one, else TypeError from Python
lazy_special(l, name) ==
    IF name \in _make_proxy_methods(dec.types)
    THEN LET c == _lazy_compute(l)
         IN IF c.exc # "none" THEN c
            ELSE Res("none", special_method(name, c.attrs[l]._lazy_value),
                     c.attrs, c.counter, c.calls)
    ELSE Res("TypeError", None, attrs, counter, calls)

---------------------------------------------------------------------------
(* The operations of a program that uses LazyDecorator *)

InitLazy ==
    /\ dec \in {LazyDecorator({t}) : t \in LazyTypes}
    /\ attrs = [o \in Objects |-> EmptyDict]
    /\ init_counter \in InitCounters
    /\ counter = [w \in Owners |-> init_counter]
    /\ calls = [w \in Owners |-> 0]
    /\ hist = << >>
    /\ keyIn = NoKeys
    /\ keyOut = NoKeys
    /\ fetched = Nothing
    /\ callers = NoCallers
    /\ klass = NoDeclaration
    /\ request = NoRequest
    /\ built = NotBuilt

\* @lazy(types) applied to a function: LazyDecorator.get_wrapped_object
LazyDecorate ==
    /\ dec.wrapped = "none"
    /\ \E t \in LazyTargets :
          dec' = [dec EXCEPT !.to_wrap = t, !.wrapped = "wrapper"]
    /\ UNCHANGED <<attrs, counter, calls, init_counter, hist, keyIn, keyOut,
                   fetched>>
    /\ UNCHANGED paramVars
    /\ UNCHANGED callers

Created(l) == DOMAIN attrs[l] # {}

\* l = f(*args): the wrapper returns a new lazy object
LazyCall ==
    /\ dec.wrapped = "wrapper"
    /\ Len(hist) < MaxHistLazy
    /\ \E l \in Instances, args \in ArgLists(dec.to_wrap.nparams) :
          /\ ~Created(l)
          /\ Apply("create", l, args, None,
                   Res("none", None,
                       [attrs EXCEPT ![l] =
                           LazyWrapper(dec.to_wrap.name, args, EmptyKwargs)],
                       counter, calls))
    /\ UNCHANGED fetched

\* l.name
LazyRead ==
    /\ Len(hist) < MaxHistLazy
    /\ \E l \in Instances, name \in AttributeNames :
          /\ Created(l)
          /\ Apply(IF startswith_lazy(name) THEN "read_lazy" ELSE "read",
                   l, <<name>>, None, lazy_getattribute(l, name))
    /\ UNCHANGED fetched

\* l.name = value
LazyAssign ==
    /\ Len(hist) < MaxHistLazy
    /\ \E l \in Instances, name \in AttributeNames, v \in PushedValues :
          /\ Created(l)
          /\ Apply(IF startswith_lazy(name) THEN "assign_lazy" ELSE "assign",
                   l, <<name>>, v, lazy_setattr(l, name, v))
    /\ UNCHANGED fetched

\* -l, len(l): a special method looked up on the class of l
LazySpecial ==
    /\ Len(hist) < MaxHistLazy
    /\ \E l \in Instances, name \in SpecialMethods :
          /\ Created(l)
          /\ Apply(IF name \in _make_proxy_methods(dec.types)
                   THEN "proxied" ELSE "unproxied",
                   l, <<name>>, None, lazy_special(l, name))
    /\ UNCHANGED fetched

NextLazy ==
    \/ LazyDecorate
    \/ LazyCall
    \/ LazyRead
    \/ LazyAssign
    \/ LazySpecial

SpecLazy == InitLazy /\ [][NextLazy]_vars

\* the operations that use a lazy object
IsUse(e) == e.op \in {"read", "assign", "proxied"}
\* the wrapped function has returned a value for lazy object l
HasReturned(l) == counter[l] > init_counter

\* C30: calling the wrapped function's wrapper does not invoke the function;
\* the first use of the lazy object (a non-lazy attribute read, an attribute
\* assignment, a proxied special method) invokes it, no other operation
\* does, and it is invoked at most once per lazy object.
C30_InvokedOnceOnFirstUse ==
    [][ hist' # hist =>
          LET e == LastOf(hist')
              l == e.obj
              first == Len(SelectSeq(On(l), IsUse)) = 0
          IN /\ calls'[l] = calls[l] + (IF IsUse(e) /\ first THEN 1 ELSE 0)
             /\ calls'[l] <= 1 ]_vars

\* C30 (amended): calling the wrapper does not invoke the wrapped function;
\* a use of the lazy object (a non-lazy attribute read or assignment, a
\* proxied special method) invokes it exactly when no earlier invocation
\* for that lazy object has returned, and no other operation invokes it;
\* so an invocation that raised is repeated by the next use, at most one
\* invocation per lazy object returns, and every use after it works on the
\* value it computed.
C30_InvokedUntilReturned ==
    [][ hist' # hist =>
          LET e == LastOf(hist')
              l == e.obj
          IN /\ calls'[l] =
                   calls[l] + (IF IsUse(e) /\ ~HasReturned(l) THEN 1 ELSE 0)
             /\ \A o \in Instances : o # l => calls'[o] = calls[o]
             /\ counter'[l] <= init_counter + 1
             /\ (IsUse(e) /\ e.exc # "ValueError") =>
                   /\ attrs'[l]._lazy_value.value = init_counter + 1
                   /\ HasReturned(l) =>
                         attrs'[l]._lazy_value.value =
                            attrs[l]._lazy_value.value
             /\ (e.op = "proxied" /\ e.exc = "none") =>
                   e.value = special_method(e.args[1],
                                            attrs'[l]._lazy_value) ]_vars

\* a lazy object was created without invoking the function, its first use
\* raised, its second use invoked the function again, and its third use
\* reused the computed value
C30_Witness ==
    /\ Len(hist) = 4
    /\ \A k \in 1..4 : hist[k].obj = hist[1].obj
    /\ hist[1].op = "create"
    /\ hist[2].op = "proxied" /\ hist[2].exc = "ValueError"
    /\ hist[3].op = "assign" /\ hist[3].exc = "none"
    /\ hist[4].op = "proxied" /\ hist[4].exc = "none"
    /\ calls[hist[1].obj] = 2
    /\ counter[hist[1].obj] = init_counter + 1

===========================================================================
